---- MODULE Spec2Model ----
(***************************************************************************)
(* State-machine model of the immuni analytics backend: the iOS            *)
(* DeviceCheck authorization flow, the monthly quota ledger kept in Redis, *)
(* the operational-info upload handler and the Android SafetyNet           *)
(* attestation job with its single-use salt.                               *)
(***************************************************************************)
EXTENDS Integers, Sequences, FiniteSets, TLC

VARIABLES
    env,        \* config.ENV of the deployment
    month,      \* calendar month of date.today(), as a month index
    bits,       \* Apple DeviceCheck state of every device
    flows,      \* POST /apple/token requests and the celery task each schedules
    ledger,     \* Redis: analytics token -> set of "<month>:<0|1>" members
    ttlMonth,   \* Redis: month in which the token key's EXPIRE was last set
    uploads,    \* POST /apple/operational-info requests
    queue,      \* Redis list OPERATIONAL_INFO_QUEUE_KEY
    clock,      \* wall clock in minutes (datetime.utcnow)
    salts,      \* Redis: used-salt key -> expiry instant, NoKey when absent
    runs,       \* POST /google/operational-info requests and their celery task
    payloads,   \* Redis list EXPOSURE_PAYLOAD_QUEUE_KEY
    produced,   \* number of elements pushed on the two ingestion lists
    sent,       \* the records handed to enqueue, in order
    errors,     \* Redis list EXPOSURE_PAYLOAD_ERRORS_QUEUE_KEY
    documents,  \* MongoDB: the documents of the two collections
    counters,   \* Prometheus STORED_EXPOSURE_PAYLOAD, WRONG_EXPOSURE_PAYLOAD
    drains,     \* runs of the scheduled tasks of celery/scheduled
    reqs,       \* calls of the DeviceCheck helpers and their HTTP attempts
    validation, \* the last payload handed to _validate_payload and its outcome
    today,      \* date.today(), as the calendar date <<year, month, day>>
    month_members \* the texts of the ledger members computed today

vars == <<env, month, bits, flows, ledger, ttlMonth, uploads, queue,
          clock, salts, runs, payloads, produced, sent, errors, documents, counters,
          drains, reqs, validation, today, month_members>>

iosVars == <<env, month, bits, flows, ledger, ttlMonth, uploads>>
androidVars == <<clock, salts, runs>>
scheduledVars == <<payloads, produced, sent, errors, documents, counters, drains>>
requestVars == <<reqs, validation, today, month_members>>

(***************************************************************************)
(* Bounds of the model.                                                    *)
(***************************************************************************)
MaxMonth == 2       \* months 0..MaxMonth are explored
MaxFlows == 2       \* POST /apple/token requests
MaxUploads == 2     \* POST /apple/operational-info requests
MaxRuns == 2        \* POST /google/operational-info requests
MaxClock == 20      \* minutes 0..MaxClock are explored
TickMinutes == 5    \* the clock is observed every TickMinutes minutes
MaxElements == 3    \* elements pushed on the exposure-payload list
FirstYear == 2020   \* the calendar runs from 1 January of FirstYear
LastYear == 2021    \* to 31 December of LastYear
MaxDrains == 2      \* runs of the scheduled tasks
MaxRequests == 2    \* calls of the DeviceCheck helpers

Months == 0..MaxMonth
FlowIds == 1..MaxFlows
UploadIds == 1..MaxUploads
RunIds == 1..MaxRuns
DrainIds == 1..MaxDrains
RequestIds == 1..MaxRequests
Tokens == {"t1", "t2"}
\* a bearer token that is not 128 lowercase hexadecimal characters
MalformedToken == "T1"
BearerTokens == Tokens \cup {MalformedToken}
\* the regular expression of the AnalyticsToken field
AnalyticsToken(token) == token \in Tokens
Devices == {"d1"}
Salts == {"s1"}
Release == "release"
Environments == {Release, "development"}

\* the body field last_risky_exposure_on: a date, or absent
NoDate == "absent"
Calendar == { <<"date(2020, 6, 1)", "2020-06-01">> }  \* dates and their ISO texts
Dates == { day[1] : day \in Calendar }

\* last_update_time is None ("Failed to find bit state", or never written)
NoUpdate == -1
\* a Redis key that does not exist
NoKey == -1

(***************************************************************************)
(* helpers/date_utils.py and helpers/redis.py: the ledger members.         *)
(***************************************************************************)
current_month == month

next_month == month + 1

get_upload_authorization_member_for_current_month(with_exposure) ==
    <<current_month, IF with_exposure THEN 1 ELSE 0>>

get_upload_authorization_member_for_next_month(with_exposure) ==
    <<next_month, IF with_exposure THEN 1 ELSE 0>>

\* the bug of adding the current-month members for one flag only
get_all_authorizations_for_upload_one_flag ==
    { get_upload_authorization_member_for_current_month(FALSE),
      get_upload_authorization_member_for_next_month(TRUE),
      get_upload_authorization_member_for_next_month(FALSE) }

get_all_authorizations_for_upload ==
    { get_upload_authorization_member_for_current_month(TRUE),
      get_upload_authorization_member_for_current_month(FALSE),
      get_upload_authorization_member_for_next_month(TRUE),
      get_upload_authorization_member_for_next_month(FALSE) }

\* the bug of taking a member of any month
is_upload_authorized_for_token_any_month(analytics_token) ==
    ledger[analytics_token] # {}

is_upload_authorized_for_token(analytics_token) ==
    LET members == ledger[analytics_token]
    IN  /\ members # {}
        /\ \/ get_upload_authorization_member_for_current_month(TRUE) \in members
           \/ get_upload_authorization_member_for_current_month(FALSE) \in members

(***************************************************************************)
(* models/device_check.py: DeviceCheckData and its derived predicates.     *)
(***************************************************************************)
DeviceCheckData(bit0, bit1, last_update_time) ==
    [bit0 |-> bit0, bit1 |-> bit1, last_update_time |-> last_update_time]

\* the bug of counting an update of the current month only
used_in_current_month_only(data) ==
    data.last_update_time # NoUpdate /\ current_month = data.last_update_time

used_in_current_month(data) ==
    data.last_update_time # NoUpdate /\ current_month <= data.last_update_time

is_default_configuration(data) == ~data.bit0 /\ ~data.bit1

is_authorized(data) == data.bit0 /\ ~data.bit1

is_blacklisted(data) == data.bit0 /\ data.bit1

(***************************************************************************)
(* The DeviceCheck calls of one flow, in the order they were made.  A call *)
(* that raised DeviceCheckApiError has ok = FALSE.  A fetch records the    *)
(* bits it returned and, for the first step in release environment, what   *)
(* used_in_current_month was on that data; a set records the bits it asked *)
(* for.                                                                    *)
(***************************************************************************)
FetchCall(data, used) ==
    [op |-> "fetch", ok |-> TRUE, bit0 |-> data.bit0, bit1 |-> data.bit1,
     used |-> used]

SetCall(bit0, bit1) ==
    [op |-> "set", ok |-> TRUE, bit0 |-> bit0, bit1 |-> bit1, used |-> FALSE]

FailedCall(op, bit0, bit1) ==
    [op |-> op, ok |-> FALSE, bit0 |-> bit0, bit1 |-> bit1, used |-> FALSE]

IdleFlow ==
    [pc |-> "idle", token |-> "-", device |-> "-", status |-> 0,
     calls |-> <<>>, outcome |-> "none", overlap |-> {}, at |-> 0]

IdleUpload ==
    [pc |-> "idle", token |-> "-", exposure |-> FALSE,
     last_risky_exposure_on |-> NoDate, valid |-> TRUE,
     dummy |-> FALSE, month |-> 0, present |-> FALSE, enqueued |-> FALSE, status |-> 0]

IdleRun ==
    [pc |-> "idle", salt |-> "-", kind |-> "-", timestampMs |-> 0,
     exposure |-> FALSE, last_risky_exposure_on |-> NoDate,
     dummy |-> FALSE, outcome |-> "none", at |-> 0, set |-> FALSE, enqueued |-> FALSE,
     status |-> 0]

IdleDrain ==
    [pc |-> "idle", task |-> "-", before |-> <<>>, batch |-> <<>>,
     trimmed |-> <<>>, after |-> <<>>, inserted |-> <<>>, sidelined |-> <<>>,
     at |-> 0, outcome |-> "none"]

\* a JWS payload: the seven fields _validate_payload reads
Payload(timestampMs, nonce, apkPackageName, apkCertificateDigestSha256, basicIntegrity, ctsProfileMatch, evaluationType) ==
    [timestampMs |-> timestampMs, nonce |-> nonce,
     apkPackageName |-> apkPackageName,
     apkCertificateDigestSha256 |-> apkCertificateDigestSha256,
     basicIntegrity |-> basicIntegrity, ctsProfileMatch |-> ctsProfileMatch,
     evaluationType |-> evaluationType]

NoValidation ==
    [payload |-> Payload(0, "-", "-", <<"-">>, FALSE, FALSE, "-"), now |-> 0,
     outcome |-> "none"]

\* no ledger member was computed since midnight
NoMembers == [current |-> <<>>, next |-> <<>>]

IdleRequest ==
    [pc |-> "idle", helper |-> "-", attempts |-> <<>>, raised |-> "none",
     response |-> "none", data |-> [bit0 |-> FALSE, bit1 |-> FALSE,
                                    last_update_time |-> NoUpdate],
     used |-> FALSE, month |-> 0]

Init ==
    /\ env \in Environments
    /\ month = 0
    /\ bits = [d \in Devices |-> DeviceCheckData(FALSE, FALSE, NoUpdate)]
    /\ flows = [f \in FlowIds |-> IdleFlow]
    /\ ledger = [t \in Tokens |-> {}]
    /\ ttlMonth = [t \in Tokens |-> NoKey]
    /\ uploads = [u \in UploadIds |-> IdleUpload]
    /\ queue = <<>>
    /\ clock = 0
    /\ salts = [s \in Salts |-> NoKey]
    /\ runs = [r \in RunIds |-> IdleRun]
    /\ payloads = <<>>
    /\ produced = 0
    /\ sent = <<>>
    /\ errors = <<>>
    /\ documents = <<>>
    /\ counters = [STORED_EXPOSURE_PAYLOAD |-> 0, WRONG_EXPOSURE_PAYLOAD |-> 0]
    /\ drains = [dr \in DrainIds |-> IdleDrain]
    /\ reqs = [c \in RequestIds |-> IdleRequest]
    /\ validation = NoValidation
    /\ today = <<FirstYear, 1, 1>>
    /\ month_members = NoMembers

(***************************************************************************)
(* The calendar.                                                           *)
(***************************************************************************)
MonthRollover ==
    /\ month < MaxMonth
    /\ month' = month + 1
    /\ UNCHANGED <<env, bits, flows, ledger, ttlMonth, uploads, queue,
                   androidVars, scheduledVars, requestVars>>

(***************************************************************************)
(* POST /v1/analytics/apple/token                                          *)
(***************************************************************************)
\* flows are numbered in the order the requests arrive
NextFree(slots, ids, i) ==
    /\ slots[i].pc = "idle"
    /\ \A j \in ids : j < i => slots[j].pc # "idle"

\* the @validate decorators answer 400 to a request that violates the
\* schema, before the handler runs; the handler looks up request.token, the
\* bearer token of the request, and schedules the task for the
\* analytics_token of the body
authorize_token(f, is_valid, request_token, is_dummy, analytics_token, device_token) ==
    /\ NextFree(flows, FlowIds, f)
    /\ flows' = [flows EXCEPT ![f] =
           IF ~is_valid
           THEN [IdleFlow EXCEPT !.pc = "done", !.status = 400]
           ELSE IF is_dummy
           THEN [IdleFlow EXCEPT !.pc = "done", !.status = 204]
           ELSE IF is_upload_authorized_for_token(request_token)
                THEN [IdleFlow EXCEPT !.pc = "done", !.token = analytics_token,
                                      !.device = device_token, !.status = 201]
                ELSE [IdleFlow EXCEPT !.pc = "first_step", !.token = analytics_token,
                                      !.device = device_token, !.status = 202]]
    /\ UNCHANGED <<env, month, bits, ledger, ttlMonth, uploads, queue,
                   androidVars, scheduledVars, requestVars>>

(***************************************************************************)
(* Apple DeviceCheck: query_two_bits and update_two_bits are each one      *)
(* atomic step at Apple; an update stamps last_update_time with the month  *)
(* of the write.  A call that ends in DeviceCheckApiError leaves the bits  *)
(* as they were.                                                           *)
(***************************************************************************)
fetch_device_check_bits(device_token) == bits[device_token]

set_device_check_bits(device_token, bit0, bit1) ==
    [bits EXCEPT ![device_token] = DeviceCheckData(bit0, bit1, month)]

\* the flows whose task is between its first fetch and its end
Running(device_token) ==
    { g \in FlowIds : /\ flows[g].device = device_token
                      /\ flows[g].pc \notin {"idle", "first_step", "done"} }

\* the task goes on to its next await, having made the call
Advance(fl, f, pc, call) ==
    [fl EXCEPT ![f].pc = pc, ![f].calls = Append(@, call)]

\* the task returns, having made the call
Finish(fl, f, outcome, call) ==
    [fl EXCEPT ![f].pc = "done", ![f].outcome = outcome,
               ![f].calls = Append(@, call)]

(***************************************************************************)
(* celery/authorization_ios/tasks/authorize_analytics_token.py             *)
(***************************************************************************)
\* the bug of catching DeviceCheckApiError with BlacklistDeviceException
DeviceCheckApiError_blacklisting(fl, f, call) == Advance(fl, f, "blacklist", call)

\* except (DiscardAnalyticsTokenException, DeviceCheckApiError): return
DeviceCheckApiError(fl, f, call) == Finish(fl, f, "error", call)

DiscardAnalyticsTokenException(fl, f, call) == Finish(fl, f, "discarded", call)

\* except BlacklistDeviceException: await _blacklist_device(device_token)
BlacklistDeviceException(fl, f, call) == Advance(fl, f, "blacklist", call)

\* the bug of leaving out the default-configuration check of the first step
_first_step_unchecked(f) ==
    /\ flows[f].pc = "first_step"
    /\ LET device_check_data == fetch_device_check_bits(flows[f].device)
           started == [flows EXCEPT ![f].overlap = Running(flows[f].device)]
           used == env = Release /\ used_in_current_month(device_check_data)
           read == FetchCall(device_check_data, used)
       IN  \/ flows' = DeviceCheckApiError(started, f, FailedCall("fetch", FALSE, FALSE))
           \/ flows' = IF used
                       THEN DiscardAnalyticsTokenException(started, f, read)
                       ELSE Advance(started, f, "second_step", read)
    /\ UNCHANGED <<env, month, bits, ledger, ttlMonth, uploads, queue, androidVars, scheduledVars, requestVars>>

\* the bug of checking the configuration before used_in_current_month
_first_step_swapped(f) ==
    /\ flows[f].pc = "first_step"
    /\ LET device_check_data == fetch_device_check_bits(flows[f].device)
           started == [flows EXCEPT ![f].overlap = Running(flows[f].device)]
           used == env = Release /\ used_in_current_month(device_check_data)
           read == FetchCall(device_check_data, used)
       IN  \/ flows' = DeviceCheckApiError(started, f, FailedCall("fetch", FALSE, FALSE))
           \/ flows' = IF ~is_default_configuration(device_check_data)
                       THEN BlacklistDeviceException(started, f, read)
                       ELSE IF used
                            THEN DiscardAnalyticsTokenException(started, f, read)
                            ELSE Advance(started, f, "second_step", read)
    /\ UNCHANGED <<env, month, bits, ledger, ttlMonth, uploads, queue, androidVars, scheduledVars, requestVars>>

\* the bug of not looking at used_in_current_month
_first_step_any_month(f) ==
    /\ flows[f].pc = "first_step"
    /\ LET device_check_data == fetch_device_check_bits(flows[f].device)
           started == [flows EXCEPT ![f].overlap = Running(flows[f].device)]
           read == FetchCall(device_check_data, FALSE)
       IN  \/ flows' = DeviceCheckApiError(started, f, FailedCall("fetch", FALSE, FALSE))
           \/ flows' = IF ~is_default_configuration(device_check_data)
                       THEN BlacklistDeviceException(started, f, read)
                       ELSE Advance(started, f, "second_step", read)
    /\ UNCHANGED <<env, month, bits, ledger, ttlMonth, uploads, queue, androidVars, scheduledVars, requestVars>>

_first_step(f) ==
    /\ flows[f].pc = "first_step"
    /\ LET device_check_data == fetch_device_check_bits(flows[f].device)
           started == [flows EXCEPT ![f].overlap = Running(flows[f].device)]
           used == env = Release /\ used_in_current_month(device_check_data)
           read == FetchCall(device_check_data, used)
       IN  \/ flows' = DeviceCheckApiError(started, f, FailedCall("fetch", FALSE, FALSE))
           \/ flows' = IF used
                       THEN DiscardAnalyticsTokenException(started, f, read)
                       ELSE IF ~is_default_configuration(device_check_data)
                            THEN BlacklistDeviceException(started, f, read)
                            ELSE Advance(started, f, "second_step", read)
    /\ UNCHANGED <<env, month, bits, ledger, ttlMonth, uploads, queue, androidVars, scheduledVars, requestVars>>

\* the bug of leaving out the default-configuration check of the second step
_second_step_unchecked(f) ==
    /\ \/ /\ flows[f].pc = "second_step"
          /\ LET device_check_data == fetch_device_check_bits(flows[f].device)
                 read == FetchCall(device_check_data, FALSE)
             IN  \/ flows' = DeviceCheckApiError(flows, f, FailedCall("fetch", FALSE, FALSE))
                 \/ flows' = Advance(flows, f, "second_step_set", read)
          /\ bits' = bits
       \/ /\ flows[f].pc = "second_step_set"
          /\ \/ /\ flows' = DeviceCheckApiError(flows, f, FailedCall("set", TRUE, FALSE))
                /\ bits' = bits
             \/ /\ flows' = Advance(flows, f, "third_step", SetCall(TRUE, FALSE))
                /\ bits' = set_device_check_bits(flows[f].device, TRUE, FALSE)
    /\ UNCHANGED <<env, month, ledger, ttlMonth, uploads, queue, androidVars, scheduledVars, requestVars>>

_second_step(f) ==
    /\ \/ /\ flows[f].pc = "second_step"
          /\ LET device_check_data == fetch_device_check_bits(flows[f].device)
                 read == FetchCall(device_check_data, FALSE)
             IN  \/ flows' = DeviceCheckApiError(flows, f, FailedCall("fetch", FALSE, FALSE))
                 \/ flows' = IF ~is_default_configuration(device_check_data)
                             THEN BlacklistDeviceException(flows, f, read)
                             ELSE Advance(flows, f, "second_step_set", read)
          /\ bits' = bits
       \/ /\ flows[f].pc = "second_step_set"
          /\ \/ /\ flows' = DeviceCheckApiError(flows, f, FailedCall("set", TRUE, FALSE))
                /\ bits' = bits
             \/ /\ flows' = Advance(flows, f, "third_step", SetCall(TRUE, FALSE))
                /\ bits' = set_device_check_bits(flows[f].device, TRUE, FALSE)
    /\ UNCHANGED <<env, month, ledger, ttlMonth, uploads, queue, androidVars, scheduledVars, requestVars>>

\* the bug of leaving out the is_authorized check of the third step
_third_step_unchecked(f) ==
    /\ \/ /\ flows[f].pc = "third_step"
          /\ LET device_check_data == fetch_device_check_bits(flows[f].device)
                 read == FetchCall(device_check_data, FALSE)
             IN  \/ flows' = DeviceCheckApiError(flows, f, FailedCall("fetch", FALSE, FALSE))
                 \/ flows' = Advance(flows, f, "third_step_set", read)
          /\ bits' = bits
       \/ /\ flows[f].pc = "third_step_set"
          /\ \/ /\ flows' = DeviceCheckApiError(flows, f, FailedCall("set", FALSE, FALSE))
                /\ bits' = bits
             \/ /\ flows' = Advance(flows, f, "add_token", SetCall(FALSE, FALSE))
                /\ bits' = set_device_check_bits(flows[f].device, FALSE, FALSE)
    /\ UNCHANGED <<env, month, ledger, ttlMonth, uploads, queue, androidVars, scheduledVars, requestVars>>

\* the bug of granting without the write of (false,false)
_third_step_no_reset(f) ==
    /\ \/ /\ flows[f].pc = "third_step"
          /\ LET device_check_data == fetch_device_check_bits(flows[f].device)
                 read == FetchCall(device_check_data, FALSE)
             IN  \/ flows' = DeviceCheckApiError(flows, f, FailedCall("fetch", FALSE, FALSE))
                 \/ flows' = IF ~is_authorized(device_check_data)
                             THEN BlacklistDeviceException(flows, f, read)
                             ELSE Advance(flows, f, "third_step_set", read)
          /\ bits' = bits
       \/ /\ flows[f].pc = "third_step_set"
          /\ flows' = [flows EXCEPT ![f].pc = "add_token"]
          /\ bits' = bits
    /\ UNCHANGED <<env, month, ledger, ttlMonth, uploads, queue, androidVars, scheduledVars, requestVars>>

_third_step(f) ==
    /\ \/ /\ flows[f].pc = "third_step"
          /\ LET device_check_data == fetch_device_check_bits(flows[f].device)
                 read == FetchCall(device_check_data, FALSE)
             IN  \/ flows' = DeviceCheckApiError(flows, f, FailedCall("fetch", FALSE, FALSE))
                 \/ flows' = IF ~is_authorized(device_check_data)
                             THEN BlacklistDeviceException(flows, f, read)
                             ELSE Advance(flows, f, "third_step_set", read)
          /\ bits' = bits
       \/ /\ flows[f].pc = "third_step_set"
          /\ \/ /\ flows' = DeviceCheckApiError(flows, f, FailedCall("set", FALSE, FALSE))
                /\ bits' = bits
             \/ /\ flows' = Advance(flows, f, "add_token", SetCall(FALSE, FALSE))
                /\ bits' = set_device_check_bits(flows[f].device, FALSE, FALSE)
    /\ UNCHANGED <<env, month, ledger, ttlMonth, uploads, queue, androidVars, scheduledVars, requestVars>>

\* the bug of writing (true,true) in every environment
_blacklist_device_any_env(f) ==
    /\ flows[f].pc = "blacklist"
    /\ \/ /\ flows' = Finish(flows, f, "crashed", FailedCall("set", TRUE, TRUE))
          /\ bits' = bits
       \/ /\ flows' = Finish(flows, f, "blacklisted", SetCall(TRUE, TRUE))
          /\ bits' = set_device_check_bits(flows[f].device, TRUE, TRUE)
    /\ UNCHANGED <<env, month, ledger, ttlMonth, uploads, queue, androidVars, scheduledVars, requestVars>>

\* the DeviceCheckApiError of this set is caught by nobody: the task fails
_blacklist_device(f) ==
    /\ flows[f].pc = "blacklist"
    /\ IF env = Release
       THEN \/ /\ flows' = Finish(flows, f, "crashed", FailedCall("set", TRUE, TRUE))
               /\ bits' = bits
            \/ /\ flows' = Finish(flows, f, "blacklisted", SetCall(TRUE, TRUE))
               /\ bits' = set_device_check_bits(flows[f].device, TRUE, TRUE)
       ELSE /\ flows' = [flows EXCEPT ![f].pc = "done", ![f].outcome = "blacklisted"]
            /\ bits' = bits
    /\ UNCHANGED <<env, month, ledger, ttlMonth, uploads, queue, androidVars, scheduledVars, requestVars>>

\* SADD and EXPIRE are queued on a Pipeline and sent together by execute():
\* the pipeline is not a MULTI/EXEC transaction, so Redis runs them as two
\* commands and serves other clients between the two
_add_analytics_token_to_redis(f) ==
    \/ /\ flows[f].pc = "add_token"
       /\ ledger' = [ledger EXCEPT ![flows[f].token] =
                         @ \cup get_all_authorizations_for_upload]
       /\ flows' = [flows EXCEPT ![f].pc = "expire", ![f].outcome = "authorized",
                                 ![f].at = month]
       /\ ttlMonth' = ttlMonth
       /\ UNCHANGED <<env, month, bits, uploads, queue, androidVars, scheduledVars, requestVars>>
    \/ /\ flows[f].pc = "expire"
       /\ ttlMonth' = [ttlMonth EXCEPT ![flows[f].token] = month]
       /\ flows' = [flows EXCEPT ![f].pc = "done"]
       /\ ledger' = ledger
       /\ UNCHANGED <<env, month, bits, uploads, queue, androidVars, scheduledVars, requestVars>>

\* _authorize_analytics_token: the task runs its steps in order, an await
\* (a DeviceCheck call, a sleep, the Redis pipeline) between any two
_authorize_analytics_token(f) ==
    \/ _first_step(f)
    \/ _second_step(f)
    \/ _third_step(f)
    \/ _blacklist_device(f)
    \/ _add_analytics_token_to_redis(f)

(***************************************************************************)
(* POST /v1/analytics/apple/operational-info.  The handler removes the     *)
(* member of the current month with one SREM and enqueues the record only  *)
(* when the SREM reports the member was there; the enqueue is a second     *)
(* call, so other requests run between the two.                            *)
(***************************************************************************)
OperationalInfo(platform, exposure_notification, last_risky_exposure_on) ==
    [platform |-> platform, exposure_notification |-> exposure_notification,
     last_risky_exposure_on |-> last_risky_exposure_on]

\* the members of the enum Platform, and the member of a value
Platform_IOS == "Platform.IOS"
Platform_ANDROID == "Platform.ANDROID"
PlatformValue(member) == IF member = Platform_IOS THEN "ios" ELSE "android"
Platform(value) == IF value = "ios" THEN Platform_IOS ELSE Platform_ANDROID

\* date.isoformat and date.fromisoformat: the text of a date, and back
isoformat(day) == (CHOOSE d \in Calendar : d[1] = day)[2]
fromisoformat(text) == (CHOOSE d \in Calendar : d[2] = text)[1]

\* the bug of decoding no date at all
from_dict_without_date(value) ==
    OperationalInfo(Platform(value.platform), value.exposure_notification, NoDate)

\* OperationalInfo.to_dict and OperationalInfo.from_dict: the dictionary that
\* json.dumps writes on the list, and the document json.loads gives back
to_dict(self) ==
    [platform |-> PlatformValue(self.platform),
     exposure_notification |-> self.exposure_notification,
     last_risky_exposure_on |->
         IF self.last_risky_exposure_on # NoDate
         THEN isoformat(self.last_risky_exposure_on) ELSE NoDate]

from_dict(value) ==
    OperationalInfo(Platform(value.platform), value.exposure_notification,
                    IF value.last_risky_exposure_on # NoDate
                    THEN fromisoformat(value.last_risky_exposure_on) ELSE NoDate)

\* the bug of removing the members of both flags of the current month
post_operational_info_both_flags(u, is_valid, token, is_dummy, exposure_notification, last_risky_exposure_on) ==
    /\ NextFree(uploads, UploadIds, u)
    /\ IF ~is_valid
       THEN /\ uploads' = [uploads EXCEPT ![u] =
                   [IdleUpload EXCEPT !.pc = "done", !.valid = FALSE,
                                      !.dummy = is_dummy, !.status = 400]]
            /\ ledger' = ledger
       ELSE IF is_dummy
       THEN /\ uploads' = [uploads EXCEPT ![u] =
                   [IdleUpload EXCEPT !.pc = "done", !.dummy = TRUE, !.status = 204]]
            /\ ledger' = ledger
       ELSE LET member == get_upload_authorization_member_for_current_month(
                              exposure_notification)
                removed == token \in DOMAIN ledger /\ member \in ledger[token]
            IN  /\ ledger' = IF token \in DOMAIN ledger
                             THEN [ledger EXCEPT ![token] = @ \
                       { get_upload_authorization_member_for_current_month(TRUE),
                         get_upload_authorization_member_for_current_month(FALSE) }]
                             ELSE ledger
                /\ uploads' = [uploads EXCEPT ![u] =
                       [IdleUpload EXCEPT !.pc = IF removed THEN "enqueue" ELSE "done",
                                          !.token = token,
                                          !.exposure = exposure_notification,
                                          !.last_risky_exposure_on = last_risky_exposure_on,
                                          !.month = month,
                                          !.present = removed,
                                          !.status = IF removed THEN 0 ELSE 204]]
    /\ UNCHANGED <<env, month, bits, flows, ttlMonth, queue, androidVars, scheduledVars, requestVars>>

\* the bug of testing the member with SISMEMBER and never removing it
post_operational_info_sismember(u, is_valid, token, is_dummy, exposure_notification, last_risky_exposure_on) ==
    /\ NextFree(uploads, UploadIds, u)
    /\ IF ~is_valid
       THEN /\ uploads' = [uploads EXCEPT ![u] =
                   [IdleUpload EXCEPT !.pc = "done", !.valid = FALSE,
                                      !.dummy = is_dummy, !.status = 400]]
            /\ ledger' = ledger
       ELSE IF is_dummy
       THEN /\ uploads' = [uploads EXCEPT ![u] =
                   [IdleUpload EXCEPT !.pc = "done", !.dummy = TRUE, !.status = 204]]
            /\ ledger' = ledger
       ELSE LET member == get_upload_authorization_member_for_current_month(
                              exposure_notification)
                removed == token \in DOMAIN ledger /\ member \in ledger[token]
            IN  /\ ledger' = ledger
                /\ uploads' = [uploads EXCEPT ![u] =
                       [IdleUpload EXCEPT !.pc = IF removed THEN "enqueue" ELSE "done",
                                          !.token = token,
                                          !.exposure = exposure_notification,
                                          !.last_risky_exposure_on = last_risky_exposure_on,
                                          !.month = month,
                                          !.present = removed,
                                          !.status = IF removed THEN 0 ELSE 204]]
    /\ UNCHANGED <<env, month, bits, flows, ttlMonth, queue, androidVars, scheduledVars, requestVars>>

\* the bug of answering 403 when the member of the upload is not in the set
post_operational_info_oracle(u, is_valid, token, is_dummy, exposure_notification, last_risky_exposure_on) ==
    /\ NextFree(uploads, UploadIds, u)
    /\ IF ~is_valid
       THEN /\ uploads' = [uploads EXCEPT ![u] =
                   [IdleUpload EXCEPT !.pc = "done", !.valid = FALSE,
                                      !.dummy = is_dummy, !.status = 400]]
            /\ ledger' = ledger
       ELSE IF is_dummy
       THEN /\ uploads' = [uploads EXCEPT ![u] =
                   [IdleUpload EXCEPT !.pc = "done", !.dummy = TRUE, !.status = 204]]
            /\ ledger' = ledger
       ELSE LET member == get_upload_authorization_member_for_current_month(
                              exposure_notification)
                removed == token \in DOMAIN ledger /\ member \in ledger[token]
            IN  /\ ledger' = IF removed
                             THEN [ledger EXCEPT ![token] = @ \ {member}]
                             ELSE ledger
                /\ uploads' = [uploads EXCEPT ![u] =
                       [IdleUpload EXCEPT !.pc = IF removed THEN "enqueue" ELSE "done",
                                          !.token = token,
                                          !.exposure = exposure_notification,
                                          !.last_risky_exposure_on = last_risky_exposure_on,
                                          !.month = month,
                                          !.present = removed,
                                          !.status = IF removed THEN 0 ELSE 403]]
    /\ UNCHANGED <<env, month, bits, flows, ttlMonth, queue, androidVars, scheduledVars, requestVars>>

\* the @validate decorators answer 400 before the handler runs; the handler
\* builds the record from the fields of the request as they are
post_operational_info(u, is_valid, token, is_dummy, exposure_notification, last_risky_exposure_on) ==
    /\ NextFree(uploads, UploadIds, u)
    /\ IF ~is_valid
       THEN /\ uploads' = [uploads EXCEPT ![u] =
                   [IdleUpload EXCEPT !.pc = "done", !.valid = FALSE,
                                      !.dummy = is_dummy, !.status = 400]]
            /\ ledger' = ledger
       ELSE IF is_dummy
       THEN /\ uploads' = [uploads EXCEPT ![u] =
                   [IdleUpload EXCEPT !.pc = "done", !.dummy = TRUE, !.status = 204]]
            /\ ledger' = ledger
       ELSE LET member == get_upload_authorization_member_for_current_month(
                              exposure_notification)
                removed == token \in DOMAIN ledger /\ member \in ledger[token]
            IN  /\ ledger' = IF removed
                             THEN [ledger EXCEPT ![token] = @ \ {member}]
                             ELSE ledger
                /\ uploads' = [uploads EXCEPT ![u] =
                       [IdleUpload EXCEPT !.pc = IF removed THEN "enqueue" ELSE "done",
                                          !.token = token,
                                          !.exposure = exposure_notification,
                                          !.last_risky_exposure_on = last_risky_exposure_on,
                                          !.month = month,
                                          !.present = removed,
                                          !.status = IF removed THEN 0 ELSE 204]]
    /\ UNCHANGED <<env, month, bits, flows, ttlMonth, queue, androidVars, scheduledVars, requestVars>>

enqueue_operational_info(u) ==
    /\ uploads[u].pc = "enqueue"
    /\ queue' = Append(queue, to_dict(OperationalInfo(Platform_IOS, uploads[u].exposure,
                                              uploads[u].last_risky_exposure_on)))
    /\ uploads' = [uploads EXCEPT ![u].pc = "done", ![u].enqueued = TRUE,
                                  ![u].status = 204]
    /\ UNCHANGED <<env, month, bits, flows, ledger, ttlMonth, androidVars, scheduledVars, requestVars>>

(***************************************************************************)
(* The authorization flows alone: SpecFlow.                                *)
(***************************************************************************)
NextFlow ==
    \/ MonthRollover
    \/ \E f \in FlowIds, valid \in BOOLEAN, rt \in Tokens, dummy \in BOOLEAN,
          t \in Tokens, d \in Devices :
           authorize_token(f, valid, rt, dummy, t, d)
    \/ \E f \in FlowIds : _first_step(f)
    \/ \E f \in FlowIds : _second_step(f)
    \/ \E f \in FlowIds : _third_step(f)
    \/ \E f \in FlowIds : _blacklist_device(f)
    \/ \E f \in FlowIds : _add_analytics_token_to_redis(f)

SpecFlow == Init /\ [][NextFlow]_vars

\* a task that was started runs to the end: the worker is not cancelled and
\* each of its awaits returns or raises
Task(f) ==
    \/ _first_step(f)
    \/ _second_step(f)
    \/ _third_step(f)
    \/ _blacklist_device(f)
    \/ _add_analytics_token_to_redis(f)

SpecFlowLive == SpecFlow /\ \A f \in FlowIds : WF_vars(Task(f))

(***************************************************************************)
(* The quota ledger under uploads: SpecLedger.  The token requests here    *)
(* are well-formed and come one after the other, each when the flow of the *)
(* one before has ended; the uploads come at any moment.                   *)
(***************************************************************************)
NoFlowRunning == \A g \in FlowIds : flows[g].pc \in {"idle", "done"}

NextLedger ==
    \/ MonthRollover
    \/ \E f \in FlowIds, rt \in Tokens, t \in Tokens, d \in Devices :
           NoFlowRunning /\ authorize_token(f, TRUE, rt, FALSE, t, d)
    \/ \E f \in FlowIds : _first_step(f)
    \/ \E f \in FlowIds : _second_step(f)
    \/ \E f \in FlowIds : _third_step(f)
    \/ \E f \in FlowIds : _blacklist_device(f)
    \/ \E f \in FlowIds : _add_analytics_token_to_redis(f)
    \/ \E u \in UploadIds, valid \in BOOLEAN, t \in BearerTokens,
          dummy \in BOOLEAN, b \in BOOLEAN, date \in Dates :
           post_operational_info(u, valid, t, dummy, b, date)
    \/ \E u \in UploadIds : enqueue_operational_info(u)

SpecLedger == Init /\ [][NextLedger]_vars

(***************************************************************************)
(* The wall clock.                                                         *)
(***************************************************************************)
Instants == { i \in 0..MaxClock : i % TickMinutes = 0 }

Tick ==
    /\ clock + TickMinutes <= MaxClock
    /\ clock' = clock + TickMinutes
    /\ UNCHANGED <<iosVars, scheduledVars, requestVars, queue, salts, runs>>

(***************************************************************************)
(* helpers/safety_net.py.  An attestation is modelled by what decides its  *)
(* verification: kind "good" (a JWS that decodes, with a valid chain and   *)
(* signature and a payload matching the request), "bad" (one of those      *)
(* checks fails with SafetyNetVerificationError), "malformed" (_decode_jws *)
(* raises MalformedJwsToken), and its timestampMs, in minutes.             *)
(***************************************************************************)
SAFETY_NET_MAX_SKEW_MINUTES == 10

AttestationKinds == {"good", "bad", "malformed"}

_validate_payload(kind, timestampMs) ==
    LET lower_bound_skew == clock - SAFETY_NET_MAX_SKEW_MINUTES
        upper_bound_skew == clock + SAFETY_NET_MAX_SKEW_MINUTES
    IN  /\ lower_bound_skew <= timestampMs /\ timestampMs <= upper_bound_skew
        /\ kind = "good"

verify_attestation(kind, timestampMs) ==
    IF kind = "malformed" THEN "MalformedJwsToken"
    ELSE IF ~_validate_payload(kind, timestampMs) THEN "SafetyNetVerificationError"
    ELSE "verified"

(***************************************************************************)
(* Redis strings with a TTL: the used-salt key ~safetynet-used-salt:<salt> *)
(* exists until its expiry instant has passed.                             *)
(***************************************************************************)
KeyExists(salt) == salts[salt] # NoKey /\ clock <= salts[salt]

(***************************************************************************)
(* POST /v1/analytics/google/operational-info                              *)
(***************************************************************************)
\* the bug of scheduling the job without looking up the used-salt key
post_android_operational_info_unchecked(r, is_valid, is_dummy, salt, kind, timestampMs, exposure_notification, last_risky_exposure_on) ==
    /\ NextFree(runs, RunIds, r)
    /\ runs' = [runs EXCEPT ![r] =
           IF ~is_valid
           THEN [IdleRun EXCEPT !.pc = "done", !.dummy = is_dummy,
                                !.outcome = "invalid", !.status = 400]
           ELSE IF is_dummy
           THEN [IdleRun EXCEPT !.pc = "done", !.dummy = TRUE,
                                !.outcome = "dummy", !.status = 204]
           ELSE [IdleRun EXCEPT !.pc = "verify", !.salt = salt, !.kind = kind,
                                !.timestampMs = timestampMs,
                                !.exposure = exposure_notification,
                                !.last_risky_exposure_on = last_risky_exposure_on,
                                !.status = 204]]
    /\ UNCHANGED <<iosVars, scheduledVars, requestVars, queue, clock, salts>>

\* the @validate decorators answer 400 before the handler runs
post_android_operational_info(r, is_valid, is_dummy, salt, kind, timestampMs, exposure_notification, last_risky_exposure_on) ==
    /\ NextFree(runs, RunIds, r)
    /\ runs' = [runs EXCEPT ![r] =
           IF ~is_valid
           THEN [IdleRun EXCEPT !.pc = "done", !.dummy = is_dummy,
                                !.outcome = "invalid", !.status = 400]
           ELSE IF is_dummy
           THEN [IdleRun EXCEPT !.pc = "done", !.dummy = TRUE,
                                !.outcome = "dummy", !.status = 204]
           ELSE IF KeyExists(salt)
                THEN [IdleRun EXCEPT !.pc = "done", !.salt = salt,
                                     !.outcome = "used_salt", !.status = 204]
                ELSE [IdleRun EXCEPT !.pc = "verify", !.salt = salt, !.kind = kind,
                                     !.timestampMs = timestampMs,
                                     !.exposure = exposure_notification,
                                     !.last_risky_exposure_on = last_risky_exposure_on,
                                     !.status = 204]]
    /\ UNCHANGED <<iosVars, scheduledVars, requestVars, queue, clock, salts>>

(***************************************************************************)
(* celery/authorization/tasks/verify_safety_net_attestation.py.  The       *)
(* verification is local computation that ends in the SET ... NX EX call;  *)
(* the RPUSH of the record is a second call.                               *)
(***************************************************************************)
\* the bug of marking the salt as used before the attestation is verified
_verify_safety_net_attestation_set_first(r) ==
    \/ /\ runs[r].pc = "verify"
       /\ LET verdict == verify_attestation(runs[r].kind, runs[r].timestampMs)
              first_use == ~KeyExists(runs[r].salt)
          IN  /\ runs' = [runs EXCEPT
                             ![r].pc = IF first_use /\ verdict = "verified"
                                       THEN "enqueue" ELSE "done",
                             ![r].outcome = verdict,
                             ![r].at = clock,
                             ![r].set = first_use /\ verdict = "verified"]
              /\ salts' = IF first_use
                          THEN [salts EXCEPT ![runs[r].salt] =
                                   clock + SAFETY_NET_MAX_SKEW_MINUTES]
                          ELSE salts
       /\ queue' = queue
       /\ UNCHANGED <<iosVars, scheduledVars, requestVars, clock>>
    \/ /\ runs[r].pc = "enqueue"
       /\ queue' = Append(queue, to_dict(OperationalInfo(Platform_ANDROID, runs[r].exposure,
                                                  runs[r].last_risky_exposure_on)))
       /\ runs' = [runs EXCEPT ![r].pc = "done", ![r].enqueued = TRUE]
       /\ UNCHANGED <<iosVars, scheduledVars, requestVars, clock, salts>>

\* the bug of a plain SET ... EX, without NX: the call always succeeds
_verify_safety_net_attestation_plain_set(r) ==
    \/ /\ runs[r].pc = "verify"
       /\ LET verdict == verify_attestation(runs[r].kind, runs[r].timestampMs)
          IN  IF verdict # "verified"
              THEN /\ runs' = [runs EXCEPT ![r].pc = "done", ![r].outcome = verdict,
                                           ![r].at = clock]
                   /\ salts' = salts
              ELSE /\ runs' = [runs EXCEPT ![r].pc = "enqueue",
                                           ![r].outcome = verdict,
                                           ![r].at = clock,
                                           ![r].set = TRUE]
                   /\ salts' = [salts EXCEPT ![runs[r].salt] =
                                   clock + SAFETY_NET_MAX_SKEW_MINUTES]
       /\ queue' = queue
       /\ UNCHANGED <<iosVars, scheduledVars, requestVars, clock>>
    \/ /\ runs[r].pc = "enqueue"
       /\ queue' = Append(queue, to_dict(OperationalInfo(Platform_ANDROID, runs[r].exposure,
                                                  runs[r].last_risky_exposure_on)))
       /\ runs' = [runs EXCEPT ![r].pc = "done", ![r].enqueued = TRUE]
       /\ UNCHANGED <<iosVars, scheduledVars, requestVars, clock, salts>>

_verify_safety_net_attestation(r) ==
    \/ /\ runs[r].pc = "verify"
       /\ LET verdict == verify_attestation(runs[r].kind, runs[r].timestampMs)
              first_use == ~KeyExists(runs[r].salt)
          IN  IF verdict # "verified"
              THEN /\ runs' = [runs EXCEPT ![r].pc = "done", ![r].outcome = verdict,
                                           ![r].at = clock]
                   /\ salts' = salts
              ELSE /\ runs' = [runs EXCEPT
                                  ![r].pc = IF first_use THEN "enqueue" ELSE "done",
                                  ![r].outcome = verdict,
                                  ![r].at = clock,
                                  ![r].set = first_use]
                   /\ salts' = IF first_use
                               THEN [salts EXCEPT ![runs[r].salt] =
                                        clock + SAFETY_NET_MAX_SKEW_MINUTES]
                               ELSE salts
       /\ queue' = queue
       /\ UNCHANGED <<iosVars, scheduledVars, requestVars, clock>>
    \/ /\ runs[r].pc = "enqueue"
       /\ queue' = Append(queue, to_dict(OperationalInfo(Platform_ANDROID, runs[r].exposure,
                                                  runs[r].last_risky_exposure_on)))
       /\ runs' = [runs EXCEPT ![r].pc = "done", ![r].enqueued = TRUE]
       /\ UNCHANGED <<iosVars, scheduledVars, requestVars, clock, salts>>

(***************************************************************************)
(* The Android side of the system: SpecAndroid.                            *)
(***************************************************************************)
NextAndroid ==
    \/ Tick
    \/ \E r \in RunIds, valid \in BOOLEAN, dummy \in BOOLEAN, s \in Salts,
          k \in AttestationKinds, ts \in Instants, date \in Dates :
           post_android_operational_info(r, valid, dummy, s, k, ts, FALSE, date)
    \/ \E r \in RunIds : _verify_safety_net_attestation(r)

SpecAndroid == Init /\ [][NextAndroid]_vars

(***************************************************************************)
(* The three endpoints served one request at a time: SpecApi.  A request   *)
(* arrives when every earlier request, and the task it scheduled, has      *)
(* ended.  The requests are schema-valid and not dummy, the uploads carry  *)
(* a date, and all are sent at one instant of the clock.                   *)
(***************************************************************************)
Quiet ==
    /\ NoFlowRunning
    /\ \A u \in UploadIds : uploads[u].pc \in {"idle", "done"}
    /\ \A r \in RunIds : runs[r].pc \in {"idle", "done"}

NextApi ==
    \/ \E f \in FlowIds, t \in Tokens, d \in Devices :
           Quiet /\ authorize_token(f, TRUE, t, FALSE, t, d)
    \/ \E f \in FlowIds : _first_step(f)
    \/ \E f \in FlowIds : _second_step(f)
    \/ \E f \in FlowIds : _third_step(f)
    \/ \E f \in FlowIds : _blacklist_device(f)
    \/ \E f \in FlowIds : _add_analytics_token_to_redis(f)
    \/ \E u \in UploadIds, t \in Tokens, b \in BOOLEAN, date \in Dates :
           Quiet /\ post_operational_info(u, TRUE, t, FALSE, b, date)
    \/ \E u \in UploadIds : enqueue_operational_info(u)
    \/ \E r \in RunIds, s \in Salts, k \in {"good", "bad"}, date \in Dates :
           Quiet /\ post_android_operational_info(r, TRUE, FALSE, s, k, clock,
                                                  FALSE, date)
    \/ \E r \in RunIds : _verify_safety_net_attestation(r)

SpecApi == Init /\ [][NextApi]_vars

(***************************************************************************)
(* Redis lists.  LRANGE and LTRIM take 0-based inclusive indexes, negative *)
(* ones counting from the tail; LTRIM leaves the list equal to that range. *)
(***************************************************************************)
Minimum(a, b) == IF a <= b THEN a ELSE b
Maximum(a, b) == IF a >= b THEN a ELSE b
LIndex(list, i) == IF i < 0 THEN Len(list) + i ELSE i

LRANGE(list, start, stop) ==
    LET first == Maximum(LIndex(list, start), 0)
        last == Minimum(LIndex(list, stop), Len(list) - 1)
    IN  IF first > last THEN <<>> ELSE SubSeq(list, first + 1, last + 1)

LTRIM(list, start, stop) == LRANGE(list, start, stop)

(***************************************************************************)
(* The exposure-payload list is filled by the Exposure Ingestion Service.  *)
(* An element is modelled by its serial number and by what decides its     *)
(* fate in _store_exposure_payloads:                                       *)
(*   "valid"            a JSON object, version 1, payload that validates   *)
(*   "not_json"         json.loads raises JSONDecodeError                  *)
(*   "wrong_version"    version absent or not 1: InvalidFormatException    *)
(*   "no_payload"       payload absent, null or empty                      *)
(*   "invalid_payload"  payload that fails ExposurePayload validation      *)
(*   "not_object"       JSON that is not an object (a list, a number):     *)
(*                      .get raises AttributeError, which nothing catches  *)
(***************************************************************************)
PayloadKinds ==
    {"valid", "not_json", "wrong_version", "no_payload", "invalid_payload",
     "not_object"}

rpush_exposure_payload(kind) ==
    /\ produced < MaxElements
    /\ produced' = produced + 1
    /\ payloads' = Append(payloads, [n |-> produced + 1, kind |-> kind])
    /\ UNCHANGED <<iosVars, queue, androidVars, sent, errors, documents,
                   counters, drains, requestVars>>

\* helpers/redis.py:enqueue_operational_info, for any record a handler or
\* the attestation job hands to it
OperationalInfos ==
    { OperationalInfo(platform, exposure_notification, last_risky_exposure_on) :
          platform \in {Platform_IOS, Platform_ANDROID},
          exposure_notification \in BOOLEAN,
          last_risky_exposure_on \in Dates \cup {NoDate} }

enqueue(operational_info) ==
    /\ produced < MaxElements
    /\ produced' = produced + 1
    /\ sent' = Append(sent, operational_info)
    /\ queue' = Append(queue, to_dict(operational_info))
    /\ UNCHANGED <<iosVars, androidVars, payloads, errors, documents, counters,
                   drains, requestVars>>

\* json.loads, _load_exposure_payload and _load_cun_attributes on one element
_load_exposure_payload(element) ==
    CASE element.kind = "valid" -> "ExposurePayload"
      [] element.kind = "not_json" -> "JSONDecodeError"
      [] element.kind \in {"wrong_version", "no_payload"} -> "InvalidFormatException"
      [] element.kind = "invalid_payload" -> "ValidationError"
      [] OTHER -> "AttributeError"

(***************************************************************************)
(* MongoDB.  A document gets an ObjectId when it is inserted: the second   *)
(* of its creation followed by bytes that are zero for no document in      *)
(* practice (tail 1) but may be (tail 0).  ObjectId.from_datetime gives    *)
(* the second followed by zero bytes; ObjectIds compare bytewise.          *)
(***************************************************************************)
ObjectIdTails == {0, 1}
ObjectId(second, tail) == <<second, tail>>
from_datetime(second) == ObjectId(second, 0)
id__lte(id, bound) == id[1] < bound[1] \/ (id[1] = bound[1] /\ id[2] <= bound[2])

Document(collection, tail, content) ==
    [collection |-> collection, id |-> ObjectId(clock, tail), content |-> content]

\* objects.insert: one document per element, in the order given; the call
\* inserts them ("ok") or raises an error of the driver and inserts none
MongoOutcomes == {"ok", "PyMongoError"}

insert(collection, tail, contents) ==
    [i \in 1..Len(contents) |-> Document(collection, tail, contents[i])]

(***************************************************************************)
(* celery/scheduled/tasks/store_exposure_payloads.py.  The pipeline sends  *)
(* LRANGE and LTRIM as two commands; the rest of the run works on what     *)
(* LRANGE returned.                                                        *)
(***************************************************************************)
EXPOSURE_PAYLOAD_MAX_INGESTED_ELEMENTS == 2
OPERATIONAL_INFO_MAX_INGESTED_ELEMENTS == 2

\* the bug of trimming one element more than the range read
_store_exposure_payloads_trim_more(dr, tail, mongo) ==
    \/ /\ NextFree(drains, DrainIds, dr)
       /\ drains' = [drains EXCEPT ![dr] =
              [IdleDrain EXCEPT
                  !.pc = "ltrim", !.task = "store_exposure_payloads",
                  !.before = payloads,
                  !.batch = LRANGE(payloads, 0,
                                   EXPOSURE_PAYLOAD_MAX_INGESTED_ELEMENTS - 1)]]
       /\ UNCHANGED <<iosVars, queue, androidVars, payloads, produced, sent, errors,
                      documents, counters, requestVars>>
    \/ /\ drains[dr].pc = "ltrim" /\ drains[dr].task = "store_exposure_payloads"
       /\ payloads' = LTRIM(payloads, EXPOSURE_PAYLOAD_MAX_INGESTED_ELEMENTS + 1, -1)
       /\ drains' = [drains EXCEPT
              ![dr].pc = "store",
              ![dr].trimmed = LRANGE(payloads, 0, EXPOSURE_PAYLOAD_MAX_INGESTED_ELEMENTS),
              ![dr].after = payloads']
       /\ UNCHANGED <<iosVars, queue, androidVars, produced, sent, errors, documents,
                      counters, requestVars>>
    \/ /\ drains[dr].pc = "store" /\ drains[dr].task = "store_exposure_payloads"
       /\ LET ingested_data == drains[dr].batch
              Good(element) == _load_exposure_payload(element) = "ExposurePayload"
              Bad(element) == ~Good(element)
              exposure_data == SelectSeq(ingested_data, Good)
              bad_format_data == SelectSeq(ingested_data, Bad)
          IN  IF \E i \in 1..Len(ingested_data) :
                     _load_exposure_payload(ingested_data[i]) = "AttributeError"
              THEN /\ drains' = [drains EXCEPT ![dr].pc = "done",
                                               ![dr].outcome = "AttributeError"]
                   /\ UNCHANGED <<documents, counters, errors>>
              ELSE IF exposure_data # <<>> /\ mongo # "ok"
              THEN /\ drains' = [drains EXCEPT ![dr].pc = "done",
                                               ![dr].outcome = mongo]
                   /\ UNCHANGED <<documents, counters, errors>>
              ELSE /\ documents' = documents \o insert("ExposurePayload", tail, exposure_data)
                   /\ counters' = [counters EXCEPT
                          !.STORED_EXPOSURE_PAYLOAD = @ + Len(exposure_data),
                          !.WRONG_EXPOSURE_PAYLOAD = @ + Len(bad_format_data)]
                   /\ errors' = errors \o bad_format_data
                   /\ drains' = [drains EXCEPT ![dr].pc = "done",
                                               ![dr].inserted = exposure_data,
                                               ![dr].sidelined = bad_format_data,
                                               ![dr].outcome = "completed"]
       /\ UNCHANGED <<iosVars, queue, androidVars, payloads, produced, sent, requestVars>>

_store_exposure_payloads(dr, tail, mongo) ==
    \/ /\ NextFree(drains, DrainIds, dr)
       /\ drains' = [drains EXCEPT ![dr] =
              [IdleDrain EXCEPT
                  !.pc = "ltrim", !.task = "store_exposure_payloads",
                  !.before = payloads,
                  !.batch = LRANGE(payloads, 0,
                                   EXPOSURE_PAYLOAD_MAX_INGESTED_ELEMENTS - 1)]]
       /\ UNCHANGED <<iosVars, queue, androidVars, payloads, produced, sent, errors,
                      documents, counters, requestVars>>
    \/ /\ drains[dr].pc = "ltrim" /\ drains[dr].task = "store_exposure_payloads"
       /\ payloads' = LTRIM(payloads, EXPOSURE_PAYLOAD_MAX_INGESTED_ELEMENTS, -1)
       /\ drains' = [drains EXCEPT
              ![dr].pc = "store",
              ![dr].trimmed = LRANGE(payloads, 0, EXPOSURE_PAYLOAD_MAX_INGESTED_ELEMENTS - 1),
              ![dr].after = payloads']
       /\ UNCHANGED <<iosVars, queue, androidVars, produced, sent, errors, documents,
                      counters, requestVars>>
    \/ /\ drains[dr].pc = "store" /\ drains[dr].task = "store_exposure_payloads"
       /\ LET ingested_data == drains[dr].batch
              Good(element) == _load_exposure_payload(element) = "ExposurePayload"
              Bad(element) == ~Good(element)
              exposure_data == SelectSeq(ingested_data, Good)
              bad_format_data == SelectSeq(ingested_data, Bad)
          IN  IF \E i \in 1..Len(ingested_data) :
                     _load_exposure_payload(ingested_data[i]) = "AttributeError"
              THEN /\ drains' = [drains EXCEPT ![dr].pc = "done",
                                               ![dr].outcome = "AttributeError"]
                   /\ UNCHANGED <<documents, counters, errors>>
              ELSE IF exposure_data # <<>> /\ mongo # "ok"
              THEN /\ drains' = [drains EXCEPT ![dr].pc = "done",
                                               ![dr].outcome = mongo]
                   /\ UNCHANGED <<documents, counters, errors>>
              ELSE /\ documents' = documents \o insert("ExposurePayload", tail, exposure_data)
                   /\ counters' = [counters EXCEPT
                          !.STORED_EXPOSURE_PAYLOAD = @ + Len(exposure_data),
                          !.WRONG_EXPOSURE_PAYLOAD = @ + Len(bad_format_data)]
                   /\ errors' = errors \o bad_format_data
                   /\ drains' = [drains EXCEPT ![dr].pc = "done",
                                               ![dr].inserted = exposure_data,
                                               ![dr].sidelined = bad_format_data,
                                               ![dr].outcome = "completed"]
       /\ UNCHANGED <<iosVars, queue, androidVars, payloads, produced, sent, requestVars>>

(***************************************************************************)
(* celery/scheduled/tasks/store_operational_info.py                        *)
(***************************************************************************)
_store_operational_info(dr, tail, mongo) ==
    \/ /\ NextFree(drains, DrainIds, dr)
       /\ drains' = [drains EXCEPT ![dr] =
              [IdleDrain EXCEPT
                  !.pc = "ltrim", !.task = "store_operational_info",
                  !.before = queue,
                  !.batch = LRANGE(queue, 0,
                                   OPERATIONAL_INFO_MAX_INGESTED_ELEMENTS - 1)]]
       /\ UNCHANGED <<iosVars, queue, androidVars, payloads, produced, sent, errors,
                      documents, counters, requestVars>>
    \/ /\ drains[dr].pc = "ltrim" /\ drains[dr].task = "store_operational_info"
       /\ queue' = LTRIM(queue, OPERATIONAL_INFO_MAX_INGESTED_ELEMENTS, -1)
       /\ drains' = [drains EXCEPT
              ![dr].pc = "store",
              ![dr].trimmed = LRANGE(queue, 0, OPERATIONAL_INFO_MAX_INGESTED_ELEMENTS - 1),
              ![dr].after = queue']
       /\ UNCHANGED <<iosVars, androidVars, payloads, produced, sent, errors, documents,
                      counters, requestVars>>
    \/ /\ drains[dr].pc = "store" /\ drains[dr].task = "store_operational_info"
       /\ LET operational_info_list == drains[dr].batch
              operational_info_documents ==
                  [i \in 1..Len(operational_info_list) |->
                       from_dict(operational_info_list[i])]
          IN  IF operational_info_documents # <<>> /\ mongo # "ok"
              THEN /\ drains' = [drains EXCEPT ![dr].pc = "done",
                                               ![dr].outcome = mongo]
                   /\ UNCHANGED documents
              ELSE /\ documents' = documents \o
                          insert("OperationalInfo", tail, operational_info_documents)
                   /\ drains' = [drains EXCEPT
                          ![dr].pc = "done",
                          ![dr].inserted = operational_info_documents,
                          ![dr].outcome = "completed"]
       /\ UNCHANGED <<iosVars, queue, androidVars, payloads, produced, sent, errors,
                      counters, requestVars>>

(***************************************************************************)
(* celery/scheduled/tasks/delete_old_data.py.  The clock stands for        *)
(* datetime.utcnow() and the retention for timedelta(days=...), both in    *)
(* the unit of the ObjectId's creation instant.                            *)
(***************************************************************************)
DATA_RETENTION_DAYS == 10

\* what is left of the documents once those the filter id__lte selects in
\* the collection are deleted
delete_older_than(collection, reference_date, stored) ==
    LET Stays(document) ==
            \/ document.collection # collection
            \/ ~id__lte(document.id, from_datetime(reference_date))
    IN  SelectSeq(stored, Stays)

delete_old_data(dr) ==
    /\ NextFree(drains, DrainIds, dr)
    /\ LET reference_date == clock - DATA_RETENTION_DAYS
       IN  documents' = delete_older_than("OperationalInfo", reference_date,
                            delete_older_than("ExposurePayload", reference_date,
                                              documents))
    /\ drains' = [drains EXCEPT ![dr] =
           [IdleDrain EXCEPT !.pc = "done", !.task = "delete_old_data",
                             !.at = clock, !.before = documents,
                             !.after = documents', !.outcome = "completed"]]
    /\ UNCHANGED <<iosVars, queue, androidVars, payloads, produced, sent, errors,
                   counters, requestVars>>

(***************************************************************************)
(* The scheduled drainers, one run at a time and no push during a run:     *)
(* SpecDrain.  The same with runs and pushes interleaved freely:           *)
(* SpecDrainRace.                                                          *)
(***************************************************************************)
QuietDrains == \A dr \in DrainIds : drains[dr].pc \in {"idle", "done"}

NextDrain ==
    \/ \E kind \in PayloadKinds : QuietDrains /\ rpush_exposure_payload(kind)
    \/ \E operational_info \in OperationalInfos :
           QuietDrains /\ enqueue(operational_info)
    \/ \E dr \in DrainIds :
           /\ drains[dr].pc = "idle" => QuietDrains
           /\ _store_exposure_payloads(dr, 1, "ok")
    \/ \E dr \in DrainIds :
           /\ drains[dr].pc = "idle" => QuietDrains
           /\ _store_operational_info(dr, 1, "ok")

SpecDrain == Init /\ [][NextDrain]_vars

NextDrainRace ==
    \/ rpush_exposure_payload("valid")
    \/ \E operational_info \in {OperationalInfo(Platform_IOS, FALSE, NoDate)} :
           enqueue(operational_info)
    \/ \E dr \in DrainIds : _store_exposure_payloads(dr, 1, "ok")
    \/ \E dr \in DrainIds : _store_operational_info(dr, 1, "ok")

SpecDrainRace == Init /\ [][NextDrainRace]_vars

(***************************************************************************)
(* The drainers, one run at a time, with batch inserts that may fail:      *)
(* SpecDrainFault.                                                         *)
(***************************************************************************)
NextDrainFault ==
    \/ \E kind \in {"valid", "not_json"} :
           QuietDrains /\ rpush_exposure_payload(kind)
    \/ \E operational_info \in {OperationalInfo(Platform_IOS, FALSE, NoDate),
                                OperationalInfo(Platform_ANDROID, TRUE, NoDate)} :
           QuietDrains /\ enqueue(operational_info)
    \/ \E dr \in DrainIds, mongo \in MongoOutcomes :
           /\ drains[dr].pc = "idle" => QuietDrains
           /\ _store_exposure_payloads(dr, 1, mongo)
    \/ \E dr \in DrainIds, mongo \in MongoOutcomes :
           /\ drains[dr].pc = "idle" => QuietDrains
           /\ _store_operational_info(dr, 1, mongo)

SpecDrainFault == Init /\ [][NextDrainFault]_vars

(***************************************************************************)
(* celery/scheduled/app.py.  Celery beat sends each task again at every    *)
(* tick of its crontab: beat frees the slots of the runs that are over, so *)
(* that runs never come to an end, and each drainer that can start         *)
(* infinitely often does start (SF); a run that started goes on (the same  *)
(* SF), one run at a time, with batch inserts that succeed: SpecDrainLive. *)
(***************************************************************************)
beat ==
    /\ QuietDrains
    /\ \E dr \in DrainIds : drains[dr].pc = "done"
    /\ drains' = [dr \in DrainIds |-> IdleDrain]
    /\ UNCHANGED <<iosVars, queue, androidVars, payloads, produced, sent, errors,
                   documents, counters, requestVars>>

store_exposure_payloads ==
    \E dr \in DrainIds :
        /\ drains[dr].pc = "idle" => QuietDrains
        /\ _store_exposure_payloads(dr, 1, "ok")

store_operational_info ==
    \E dr \in DrainIds :
        /\ drains[dr].pc = "idle" => QuietDrains
        /\ _store_operational_info(dr, 1, "ok")

NextDrainLive ==
    \/ \E kind \in {"valid", "not_json", "not_object"} :
           QuietDrains /\ rpush_exposure_payload(kind)
    \/ \E operational_info \in {OperationalInfo(Platform_IOS, FALSE, NoDate),
                                OperationalInfo(Platform_ANDROID, TRUE, NoDate)} :
           QuietDrains /\ enqueue(operational_info)
    \/ store_exposure_payloads
    \/ store_operational_info
    \/ beat

SpecDrainLive ==
    /\ Init /\ [][NextDrainLive]_vars
    /\ SF_vars(store_exposure_payloads)
    /\ SF_vars(store_operational_info)
    /\ WF_vars(beat)

(***************************************************************************)
(* The retention sweep among the drainers and the passing of time:         *)
(* SpecRetention.                                                          *)
(***************************************************************************)
NextRetention ==
    \/ QuietDrains /\ rpush_exposure_payload("valid")
    \/ \E operational_info \in {OperationalInfo(Platform_IOS, FALSE, NoDate)} :
           QuietDrains /\ enqueue(operational_info)
    \/ \E dr \in DrainIds, tail \in ObjectIdTails :
           /\ drains[dr].pc = "idle" => QuietDrains
           /\ _store_exposure_payloads(dr, tail, "ok")
    \/ \E dr \in DrainIds, tail \in ObjectIdTails :
           /\ drains[dr].pc = "idle" => QuietDrains
           /\ _store_operational_info(dr, tail, "ok")
    \/ \E dr \in DrainIds : QuietDrains /\ delete_old_data(dr)
    \/ Tick

SpecRetention == Init /\ [][NextRetention]_vars

(***************************************************************************)
(* helpers/request.py.  An attempt of post_with_retry ends with a response *)
(* of some status or with an exception of the session; tenacity decides    *)
(* from the exception raised whether another attempt follows, and raises   *)
(* RetryError once stop_after_attempt is reached (no reraise is asked).    *)
(***************************************************************************)
STOP_AFTER_ATTEMPT == 3

PostOutcomes == {"2xx", "4xx", "5xx", "ClientError", "TimeoutError"}

\* what the body of post_with_retry raises on the outcome of session.post
Raises(outcome) ==
    CASE outcome = "5xx" -> "ServerUnavailableError"
      [] outcome = "4xx" -> "BadFormatRequestError"
      [] outcome = "2xx" -> "none"
      [] OTHER -> outcome

retry_if_exception_type == {"ClientError", "TimeoutError", "ServerUnavailableError"}

\* the bug of retrying whatever was raised
Attempt_retry_all(call, outcome) ==
    LET attempts == Append(call.attempts, outcome)
    IN  IF Raises(outcome) = "none"
        THEN [call EXCEPT !.pc = "returned", !.attempts = attempts]
        ELSE IF Len(attempts) >= STOP_AFTER_ATTEMPT
             THEN [call EXCEPT !.pc = "raised", !.attempts = attempts,
                               !.raised = "RetryError"]
             ELSE [call EXCEPT !.pc = "attempt", !.attempts = attempts]

\* a call after one more attempt
Attempt(call, outcome) ==
    LET attempts == Append(call.attempts, outcome)
    IN  IF Raises(outcome) = "none"
        THEN [call EXCEPT !.pc = "returned", !.attempts = attempts]
        ELSE IF Raises(outcome) \notin retry_if_exception_type
             THEN [call EXCEPT !.pc = "raised", !.attempts = attempts,
                               !.raised = Raises(outcome)]
             ELSE IF Len(attempts) >= STOP_AFTER_ATTEMPT
                  THEN [call EXCEPT !.pc = "raised", !.attempts = attempts,
                                    !.raised = "RetryError"]
                  ELSE [call EXCEPT !.pc = "attempt", !.attempts = attempts]

\* the call c is about to make an attempt: its first, or one after a wait
Attempting(c, helper) ==
    \/ NextFree(reqs, RequestIds, c)
    \/ reqs[c].pc = "attempt" /\ reqs[c].helper = helper

post_with_retry(c, outcome) ==
    /\ Attempting(c, "post_with_retry")
    /\ reqs' = [reqs EXCEPT ![c] =
           Attempt([@ EXCEPT !.helper = "post_with_retry"], outcome)]
    /\ UNCHANGED <<iosVars, queue, androidVars, scheduledVars, validation, today,
                   month_members>>

(***************************************************************************)
(* helpers/device_check.py.  The body of a successful fetch is the text    *)
(* "Failed to find bit state" or the JSON of the two bits and the month of *)
(* their last update, which is Apple's to choose.  The two calls are the   *)
(* helpers seen from their caller: the attempts made, and what is returned *)
(* or raised.                                                              *)
(***************************************************************************)
UpdateMonths == 0..(MaxMonth + 1)

\* a body: its text, and for JSON the object it decodes to; the helper does
\* not look at the bits, drawn both clear or both set
Body(text, json) == [text |-> text, json |-> json]

FetchResponses ==
    {Body("Failed to find bit state", DeviceCheckData(FALSE, FALSE, NoUpdate))} \cup
    { Body("json", DeviceCheckData(bit, bit, last_update_time)) :
          bit \in BOOLEAN, last_update_time \in UpdateMonths }

\* the except clauses of the two helpers
DeviceCheckRaises(raised) ==
    IF raised \in {"BadFormatRequestError", "ClientError", "TimeoutError",
                   "ServerUnavailableError"}
    THEN "DeviceCheckApiError"
    ELSE raised

call_fetch_device_check_bits(c, outcome, response) ==
    /\ Attempting(c, "fetch_device_check_bits")
    /\ LET call == Attempt([reqs[c] EXCEPT !.helper = "fetch_device_check_bits"],
                           outcome)
           data == IF response.text = "Failed to find bit state"
                   THEN DeviceCheckData(FALSE, FALSE, NoUpdate)
                   ELSE response.json
       IN  reqs' = [reqs EXCEPT ![c] =
               CASE call.pc = "raised" ->
                        [call EXCEPT !.raised = DeviceCheckRaises(call.raised)]
                 [] call.pc = "returned" ->
                        [call EXCEPT
                            !.response = response.text,
                            !.data = data,
                            !.used = used_in_current_month(data),
                            !.month = month]
                 [] OTHER -> call]
    /\ UNCHANGED <<iosVars, queue, androidVars, scheduledVars, validation, today,
                   month_members>>

call_set_device_check_bits(c, outcome) ==
    /\ Attempting(c, "set_device_check_bits")
    /\ LET call == Attempt([reqs[c] EXCEPT !.helper = "set_device_check_bits"],
                           outcome)
       IN  reqs' = [reqs EXCEPT ![c] =
               IF call.pc = "raised"
               THEN [call EXCEPT !.raised = DeviceCheckRaises(call.raised)]
               ELSE call]
    /\ UNCHANGED <<iosVars, queue, androidVars, scheduledVars, validation, today,
                   month_members>>

\* one call at a time
QuietRequests == \A c \in RequestIds : reqs[c].pc # "attempt"

NextDeviceCheck ==
    \/ \E c \in RequestIds, outcome \in PostOutcomes :
           /\ reqs[c].pc = "idle" => QuietRequests
           /\ post_with_retry(c, outcome)
    \/ \E c \in RequestIds, outcome \in PostOutcomes, response \in FetchResponses :
           /\ reqs[c].pc = "idle" => QuietRequests
           /\ call_fetch_device_check_bits(c, outcome, response)
    \/ \E c \in RequestIds, outcome \in PostOutcomes :
           /\ reqs[c].pc = "idle" => QuietRequests
           /\ call_set_device_check_bits(c, outcome)
    \/ MonthRollover

SpecDeviceCheck == Init /\ [][NextDeviceCheck]_vars

(***************************************************************************)
(* helpers/safety_net.py, _validate_payload field by field.  The nonce the *)
(* server computes from the request is "generated"; timestampMs and the    *)
(* clock are in minutes; evaluationType is a text and str.split(",") gives *)
(* its parts, blanks kept.                                                 *)
(***************************************************************************)
SAFETY_NET_PACKAGE_NAME == "it.ministerodellasalute.immuni"
SAFETY_NET_APK_DIGEST == "digest"

_generate_nonce == "generated"

EvaluationTypes ==
    { <<"BASIC", <<"BASIC">>>>,
      <<"HARDWARE_BACKED", <<"HARDWARE_BACKED">>>>,
      <<"BASIC,HARDWARE_BACKED", <<"BASIC", "HARDWARE_BACKED">>>>,
      <<"BASIC, HARDWARE_BACKED", <<"BASIC", " HARDWARE_BACKED">>>> }

split(text) == (CHOOSE e \in EvaluationTypes : e[1] = text)[2]

Payloads ==
    { Payload(timestampMs, nonce, apkPackageName, digests, basicIntegrity,
              ctsProfileMatch, evaluationType[1]) :
          timestampMs \in Instants,
          nonce \in {_generate_nonce, "other"},
          apkPackageName \in {SAFETY_NET_PACKAGE_NAME, "com.example"},
          digests \in {<<SAFETY_NET_APK_DIGEST>>, <<"other">>,
                       <<"other", SAFETY_NET_APK_DIGEST>>},
          basicIntegrity \in BOOLEAN,
          ctsProfileMatch \in BOOLEAN,
          evaluationType \in EvaluationTypes }

\* the bug of leaving out the check of ctsProfileMatch
_validate_payload_fields_no_cts(payload) ==
    LET lower_bound_skew == clock - SAFETY_NET_MAX_SKEW_MINUTES
        upper_bound_skew == clock + SAFETY_NET_MAX_SKEW_MINUTES
    IN  /\ lower_bound_skew <= payload.timestampMs
        /\ payload.timestampMs <= upper_bound_skew
        /\ payload.nonce = _generate_nonce
        /\ payload.apkPackageName = SAFETY_NET_PACKAGE_NAME
        /\ payload.apkCertificateDigestSha256[1] = SAFETY_NET_APK_DIGEST
        /\ payload.basicIntegrity = TRUE
        /\ \E i \in 1..Len(split(payload.evaluationType)) :
               split(payload.evaluationType)[i] = "HARDWARE_BACKED"

\* the condition of _validate_payload: FALSE raises SafetyNetVerificationError
_validate_payload_fields(payload) ==
    LET lower_bound_skew == clock - SAFETY_NET_MAX_SKEW_MINUTES
        upper_bound_skew == clock + SAFETY_NET_MAX_SKEW_MINUTES
    IN  /\ lower_bound_skew <= payload.timestampMs
        /\ payload.timestampMs <= upper_bound_skew
        /\ payload.nonce = _generate_nonce
        /\ payload.apkPackageName = SAFETY_NET_PACKAGE_NAME
        /\ payload.apkCertificateDigestSha256[1] = SAFETY_NET_APK_DIGEST
        /\ payload.basicIntegrity = TRUE
        /\ payload.ctsProfileMatch = TRUE
        /\ \E i \in 1..Len(split(payload.evaluationType)) :
               split(payload.evaluationType)[i] = "HARDWARE_BACKED"

\* one call is recorded: the function reads its argument and the clock only
validate_payload(payload) ==
    /\ validation.outcome = "none"
    /\ validation' =
           [payload |-> payload, now |-> clock,
            outcome |-> IF _validate_payload_fields(payload)
                        THEN "returned" ELSE "SafetyNetVerificationError"]
    /\ UNCHANGED <<iosVars, queue, androidVars, scheduledVars, reqs, today,
                   month_members>>

NextPayload ==
    \/ Tick
    \/ \E payload \in Payloads : validate_payload(payload)

SpecPayload == Init /\ [][NextPayload]_vars

(***************************************************************************)
(* helpers/date_utils.py on the calendar.  A date is <<year, month, day>>; *)
(* date + timedelta(days=n) goes n days forward, one day at a time;        *)
(* isoformat writes YYYY-MM-DD, character by character.  The members of    *)
(* helpers/redis.py are the text of the month, a colon and the flag.       *)
(***************************************************************************)
is_leap(year) == year % 4 = 0 /\ (year % 100 # 0 \/ year % 400 = 0)

days_in_month(year, m) ==
    IF m = 2 THEN (IF is_leap(year) THEN 29 ELSE 28)
    ELSE IF m \in {4, 6, 9, 11} THEN 30 ELSE 31

tomorrow(day) ==
    IF day[3] < days_in_month(day[1], day[2]) THEN <<day[1], day[2], day[3] + 1>>
    ELSE IF day[2] < 12 THEN <<day[1], day[2] + 1, 1>>
    ELSE <<day[1] + 1, 1, 1>>

RECURSIVE timedelta(_, _)
timedelta(day, days) == IF days = 0 THEN day ELSE timedelta(tomorrow(day), days - 1)

replace(day, d) == <<day[1], day[2], d>>

Digits == <<"0", "1", "2", "3", "4", "5", "6", "7", "8", "9">>
Digit(i) == Digits[i + 1]

date_isoformat(day) ==
    << Digit(day[1] \div 1000), Digit((day[1] \div 100) % 10),
       Digit((day[1] \div 10) % 10), Digit(day[1] % 10), "-",
       Digit(day[2] \div 10), Digit(day[2] % 10), "-",
       Digit(day[3] \div 10), Digit(day[3] % 10) >>

current_month_on(day) == replace(day, 1)

\* the bug of going 30 days forward
next_month_on_30_days(day) == replace(timedelta(current_month_on(day), 30), 1)

next_month_on(day) == replace(timedelta(current_month_on(day), 31), 1)

member_text(first_day, with_exposure) ==
    date_isoformat(first_day) \o <<":", IF with_exposure THEN "1" ELSE "0">>

\* get_upload_authorization_member_for_current_month and _for_next_month,
\* called on the same day
get_upload_authorization_members(with_exposure) ==
    /\ month_members' =
           [current |-> member_text(current_month_on(today), with_exposure),
            next |-> member_text(next_month_on(today), with_exposure)]
    /\ UNCHANGED <<iosVars, queue, androidVars, scheduledVars, reqs, validation,
                   today>>

\* date.today() changes; the texts computed the day before are out of use
Midnight ==
    /\ today # <<LastYear, 12, 31>>
    /\ today' = tomorrow(today)
    /\ month_members' = NoMembers
    /\ UNCHANGED <<iosVars, queue, androidVars, scheduledVars, reqs, validation>>

NextCalendar ==
    \/ Midnight
    \/ \E with_exposure \in BOOLEAN : get_upload_authorization_members(with_exposure)

SpecCalendar == Init /\ [][NextCalendar]_vars

(***************************************************************************)
(* Properties of the authorization flow.                                   *)
(***************************************************************************)
Calls(f) == flows[f].calls

Granted(f) == flows[f].pc = "add_token" \/ flows[f].outcome = "authorized"

IsRead(call) == call.op = "fetch" /\ call.ok

IsWrite(call, bit0, bit1) == call.op = "set" /\ call.bit0 = bit0 /\ call.bit1 = bit1

\* two flows ran concurrently: one was between its first fetch and its end
\* when the other made its first fetch
Concurrent(f, g) == g \in flows[f].overlap \/ f \in flows[g].overlap

\* the five calls of a granting flow, in order
GrantingCalls(c) ==
    /\ Len(c) = 5
    /\ IsRead(c[1]) /\ is_default_configuration(c[1]) /\ ~c[1].used
    /\ IsRead(c[2]) /\ is_default_configuration(c[2])
    /\ c[3] = SetCall(TRUE, FALSE)
    /\ IsRead(c[4]) /\ is_authorized(c[4])
    /\ c[5] = SetCall(FALSE, FALSE)

\* C4: of two flows that ran concurrently on the same device token, at most
\* one grants quota.
C4_AtMostOneConcurrentGrant ==
    \A f, g \in FlowIds :
        (f # g /\ flows[f].device = flows[g].device /\ Concurrent(f, g))
            => ~(Granted(f) /\ Granted(g))

\* C6: a flow grants quota only after read 1 returned the default
\* configuration (not used in the current month, in release), read 2 returned
\* the default configuration, the write (true,false) succeeded, read 3
\* returned is_authorized and the write (false,false) succeeded, in this
\* order and with no other DeviceCheck call; a token holds members only if
\* such a flow granted them.
C6_GrantOnlyAfterProtocol ==
    /\ \A f \in FlowIds : Granted(f) => GrantingCalls(Calls(f))
    /\ \A t \in Tokens :
           ledger[t] # {} =>
               \E f \in FlowIds : /\ flows[f].token = t
                                  /\ flows[f].outcome = "authorized"
                                  /\ GrantingCalls(Calls(f))

C6_Witness ==
    \E f \in FlowIds :
        /\ env = Release
        /\ flows[f].outcome = "authorized"
        /\ ledger[flows[f].token] # {}

\* C7: in release environment, a flow whose read 1 reports
\* used_in_current_month ends at step 1 whatever the bits read: that read is
\* its only DeviceCheck call, it writes nothing and it grants nothing.
C7_UsedInCurrentMonthDiscards ==
    \A f \in FlowIds :
        (Len(Calls(f)) >= 1 /\ IsRead(Calls(f)[1]) /\ Calls(f)[1].used) =>
            /\ env = Release
            /\ Len(Calls(f)) = 1
            /\ flows[f].pc = "done"
            /\ flows[f].outcome = "discarded"

C7_Witness ==
    \E f \in FlowIds :
        /\ flows[f].outcome = "discarded"
        /\ Calls(f)[1].used
        /\ ~is_default_configuration(Calls(f)[1])

\* the flow was found non-compliant by its read number n (call number i) and
\* is blacklisting: no call after that read but one set of (true,true)
BlacklistsAfter(f, i) ==
    /\ ~Granted(f)
    /\ \/ flows[f].pc = "blacklist" /\ Len(Calls(f)) = i
       \/ /\ flows[f].pc = "done"
          /\ Len(Calls(f)) = i + 1
          /\ IsWrite(Calls(f)[i + 1], TRUE, TRUE)

\* C8: in release environment, when read 1 (device not used in the current
\* month) or read 2 returns a non-default configuration, the flow makes no
\* later read, its only write is (true,true), made exactly once when it has
\* ended, and it grants nothing.
C8_NonDefaultBlacklists ==
    env = Release =>
        \A f \in FlowIds :
            /\ ( /\ Len(Calls(f)) >= 1 /\ IsRead(Calls(f)[1])
                 /\ ~Calls(f)[1].used
                 /\ ~is_default_configuration(Calls(f)[1]) )
               => BlacklistsAfter(f, 1)
            /\ ( /\ Len(Calls(f)) >= 2 /\ IsRead(Calls(f)[2])
                 /\ ~is_default_configuration(Calls(f)[2]) )
               => BlacklistsAfter(f, 2)

C8_Witness ==
    \E f \in FlowIds :
        /\ env = Release
        /\ flows[f].pc = "done"
        /\ Len(Calls(f)) = 3
        /\ IsRead(Calls(f)[2]) /\ ~is_default_configuration(Calls(f)[2])
        /\ Calls(f)[3] = SetCall(TRUE, TRUE)

\* C9: in release environment, when read 3 does not return is_authorized the
\* flow's writes are (true,false) followed by (true,true) and nothing else:
\* it never writes (false,false) and grants nothing.
C9_NotAuthorizedBlacklists ==
    env = Release =>
        \A f \in FlowIds :
            ( /\ Len(Calls(f)) >= 4 /\ IsRead(Calls(f)[4])
              /\ ~is_authorized(Calls(f)[4]) )
            => /\ IsRead(Calls(f)[1]) /\ IsRead(Calls(f)[2])
               /\ Calls(f)[3] = SetCall(TRUE, FALSE)
               /\ BlacklistsAfter(f, 4)

C9_Witness ==
    \E f \in FlowIds :
        /\ env = Release
        /\ flows[f].pc = "done"
        /\ Len(Calls(f)) = 5
        /\ IsRead(Calls(f)[4]) /\ ~is_authorized(Calls(f)[4])
        /\ Calls(f)[5] = SetCall(TRUE, TRUE)

\* C10: a DeviceCheckApiError raised by a fetch or set of steps 1 to 3 ends
\* the flow: the failing call is its last DeviceCheck call, the flow has made
\* no (true,true) write and it grants nothing.
C10_ApiErrorAborts ==
    \A f \in FlowIds :
        \A i \in 1..Len(Calls(f)) :
            (~Calls(f)[i].ok /\ ~IsWrite(Calls(f)[i], TRUE, TRUE)) =>
                /\ i = Len(Calls(f))
                /\ flows[f].pc = "done"
                /\ flows[f].outcome = "error"
                /\ \A j \in 1..Len(Calls(f)) : ~IsWrite(Calls(f)[j], TRUE, TRUE)

C10_Witness ==
    \E f \in FlowIds :
        /\ flows[f].pc = "done"
        /\ Len(Calls(f)) = 4
        /\ Calls(f)[3] = SetCall(TRUE, FALSE)
        /\ ~Calls(f)[4].ok

\* the flow met a blacklist outcome: its last read was read 1 returning a
\* non-default configuration (device not used in the current month), read 2
\* returning a non-default configuration, or read 3 returning not authorized
BlacklistOutcome(f) ==
    \E i \in 1..Len(Calls(f)) :
        /\ IsRead(Calls(f)[i])
        /\ \A j \in (i + 1)..Len(Calls(f)) : Calls(f)[j].op = "set"
        /\ \/ i = 1 /\ ~Calls(f)[1].used /\ ~is_default_configuration(Calls(f)[1])
           \/ i = 2 /\ ~is_default_configuration(Calls(f)[2])
           \/ i = 4 /\ ~is_authorized(Calls(f)[4])

\* C11: a flow that met a blacklist outcome, in any environment, grants no
\* quota: it is blacklisting or has ended blacklisted (or failed in the
\* write); in a non-release environment no flow ever makes a (true,true)
\* write, attempted or successful, and no device's bits become (true,true).
C11_BlacklistNeverGrants ==
    /\ \A f \in FlowIds :
           BlacklistOutcome(f) =>
               /\ ~Granted(f)
               /\ \/ flows[f].pc = "blacklist" /\ flows[f].outcome = "none"
                  \/ flows[f].pc = "done" /\ flows[f].outcome \in {"blacklisted", "crashed"}
    /\ env # Release =>
           /\ \A f \in FlowIds : \A i \in 1..Len(Calls(f)) :
                  ~IsWrite(Calls(f)[i], TRUE, TRUE)
           /\ \A d \in Devices : ~is_blacklisted(bits[d])

C11_Witness ==
    \E f \in FlowIds :
        /\ env # Release
        /\ BlacklistOutcome(f)
        /\ flows[f].pc = "done" /\ flows[f].outcome = "blacklisted"
        /\ Len(Calls(f)) = 4

\* the step is the handling of a non-dummy POST /apple/token in slot f
Requests(f) ==
    flows[f].pc = "idle" /\ flows'[f].pc # "idle" /\ flows'[f].status \in {201, 202}

\* C14: a non-dummy POST /apple/token answers 201 and schedules no flow if
\* the analytics token of the request holds a current-month member when the
\* request is served, and otherwise answers 202 and schedules one flow, for
\* that token; it changes nothing else.
C14_AuthorizeTokenStatus ==
    [][\A f \in FlowIds :
          Requests(f) =>
              /\ IF is_upload_authorized_for_token(flows'[f].token)
                 THEN flows'[f].status = 201 /\ flows'[f].pc = "done"
                 ELSE flows'[f].status = 202 /\ flows'[f].pc = "first_step"
              /\ \A g \in FlowIds \ {f} : flows'[g] = flows[g]
              /\ ledger' = ledger /\ bits' = bits]_vars

(***************************************************************************)
(* Properties of the quota ledger.                                         *)
(***************************************************************************)
\* the flows that added the token to Redis
Issuers(t) ==
    { f \in FlowIds : flows[f].token = t /\ flows[f].outcome = "authorized" }

\* how many times the members of month m were added to the token's set
Covering(t, m) ==
    Cardinality({ f \in Issuers(t) : flows[f].at = m \/ flows[f].at + 1 = m })

\* the uploads whose SREM of <m>:<b> on the token reported "was present"
TrueConsumes(t, m, b) ==
    { u \in UploadIds : /\ uploads[u].pc # "idle" /\ ~uploads[u].dummy
                        /\ uploads[u].token = t /\ uploads[u].month = m
                        /\ uploads[u].exposure = b /\ uploads[u].present }

Held(t, m, b) == IF <<m, IF b THEN 1 ELSE 0>> \in ledger[t] THEN 1 ELSE 0

\* the analytics tokens a device presented to POST /apple/token
TokensOf(d) ==
    { flows[f].token : f \in { g \in FlowIds : flows[g].device = d } }

Admitted(d, m, b) ==
    { u \in UploadIds : /\ uploads[u].enqueued /\ uploads[u].token \in TokensOf(d)
                        /\ uploads[u].month = m /\ uploads[u].exposure = b }

\* C1: in any one calendar month at most one with-exposure and at most one
\* without-exposure upload of the same device is admitted (enqueued),
\* whatever analytics tokens the device had authorized (release environment).
C1_DeviceMonthlyQuota ==
    env = Release =>
        \A d \in Devices, m \in Months, b \in BOOLEAN :
            Cardinality(Admitted(d, m, b)) <= 1

\* C12: every step that adds members to a token's set adds the four members
\* of the current and the next month at once and sets the key's expiry in
\* that same step; so in no state, where another client's command may run,
\* does a token's set hold members without an expiry.
C12_IssueIsAtomic ==
    [][\A t \in Tokens :
          /\ ~(ledger'[t] \subseteq ledger[t]) =>
                 /\ get_all_authorizations_for_upload \subseteq ledger'[t]
                 /\ ledger'[t] = ledger[t] \cup get_all_authorizations_for_upload
                 /\ ttlMonth'[t] = month
          /\ ledger'[t] # {} => ttlMonth'[t] # NoKey]_vars

\* C2: for a token issued once, in the current month: it is authorized as
\* long as one of its two current-month members has not been consumed, and
\* for each b the consume of <current month>:<b> has returned true exactly
\* once when the member is gone and never while it is still held, so every
\* other call for it returned false.
C2_IssueThenConsumeOnce ==
    \A t \in Tokens :
        (\E f \in FlowIds : Issuers(t) = {f} /\ flows[f].at = month) =>
            /\ \A b \in BOOLEAN :
                   Cardinality(TrueConsumes(t, month, b)) + Held(t, month, b) = 1
            /\ is_upload_authorized_for_token(t)
                   <=> \E b \in BOOLEAN : TrueConsumes(t, month, b) = {}

C2_Witness ==
    \E t \in Tokens, u, v \in UploadIds :
        /\ \E f \in FlowIds : Issuers(t) = {f} /\ flows[f].at = month
        /\ u # v
        /\ uploads[u].pc = "done" /\ uploads[v].pc = "done"
        /\ uploads[u].token = t /\ uploads[v].token = t
        /\ uploads[u].month = month /\ uploads[v].month = month
        /\ uploads[u].exposure = uploads[v].exposure
        /\ uploads[u].present /\ ~uploads[v].present /\ ~uploads[v].dummy

\* C3: of the uploads that carry the same token and the same
\* exposure_notification in the same month, in every interleaving no more
\* consumes report "was present" than the member was issued (one, for a token
\* issued once), only those uploads enqueue a record, and each enqueues one.
C3_ConsumeIsAtomic ==
    /\ \A t \in Tokens, m \in Months, b \in BOOLEAN :
           Cardinality(TrueConsumes(t, m, b)) + Held(t, m, b) <= Covering(t, m)
    /\ \A u \in UploadIds :
           /\ uploads[u].enqueued => uploads[u].present
           /\ uploads[u].pc = "done" => (uploads[u].enqueued <=> uploads[u].present)
    /\ Len(queue) = Cardinality({ u \in UploadIds : uploads[u].enqueued })

\* two requests in flight together: the second ran from start to end between
\* the SREM and the enqueue of the first
C3_Witness ==
    \E t \in Tokens, u, v \in UploadIds :
        /\ u # v
        /\ uploads[u].pc = "enqueue" /\ uploads[u].present
        /\ uploads[v].pc = "done" /\ ~uploads[v].dummy /\ ~uploads[v].present
        /\ uploads[u].token = t /\ uploads[v].token = t
        /\ uploads[u].month = uploads[v].month
        /\ uploads[u].exposure = uploads[v].exposure

\* the step is the handling of a non-dummy upload request in slot u
Consumes(u) ==
    /\ uploads[u].pc = "idle" /\ uploads'[u].pc # "idle"
    /\ ~uploads'[u].dummy /\ uploads'[u].status # 400

\* C13: the consume of an upload with token T and flag b removes the member
\* <current month>:b from T's set and nothing else, in T's set or in any
\* other token's, and reports exactly whether that member was there; no
\* other step removes a member from any set.
C13_ConsumeRemovesOneMember ==
    [][/\ \A u \in UploadIds :
              Consumes(u) =>
                  LET T == uploads'[u].token
                      member == <<month, IF uploads'[u].exposure THEN 1 ELSE 0>>
                  IN  /\ ledger' = [t \in Tokens |->
                                     IF t = T THEN ledger[t] \ {member}
                                              ELSE ledger[t]]
                      /\ uploads'[u].present <=>
                             (T \in Tokens /\ member \in ledger[T])
       /\ (\E t \in Tokens : ~(ledger[t] \subseteq ledger'[t]))
              => \E u \in UploadIds : Consumes(u)]_vars

\* a consume has reported "was present" and left the three other members of
\* the token and the members of another token in place
C13_Witness ==
    \E u \in UploadIds, t \in Tokens :
        /\ uploads[u].present /\ uploads[u].month = month
        /\ Cardinality(ledger[uploads[u].token]) = 3
        /\ t # uploads[u].token
        /\ Cardinality(ledger[t]) = 4

(***************************************************************************)
(* Properties of the attestation job.                                      *)
(***************************************************************************)
\* the runs with this salt that passed verification and made their SET call
Passed(salt) ==
    { r \in RunIds : runs[r].salt = salt /\ runs[r].outcome = "verified" }

Within(r1, r2) ==
    /\ runs[r1].at - runs[r2].at <= SAFETY_NET_MAX_SKEW_MINUTES
    /\ runs[r2].at - runs[r1].at <= SAFETY_NET_MAX_SKEW_MINUTES

\* C5: of two runs with the same salt that passed verification within
\* SAFETY_NET_MAX_SKEW_MINUTES of each other, at most one had its
\* set-if-absent succeed; a run enqueues a record if and only if its
\* set-if-absent succeeded, and enqueues one; so when the two are the only
\* runs of that salt and both have ended, exactly one record was enqueued.
C5_SaltUsedOnce ==
    /\ \A s \in Salts : \A r1, r2 \in Passed(s) :
           (r1 # r2 /\ Within(r1, r2)) =>
               /\ ~(runs[r1].set /\ runs[r2].set)
               /\ (Passed(s) = {r1, r2} /\ runs[r1].pc = "done" /\ runs[r2].pc = "done")
                      => (runs[r1].enqueued # runs[r2].enqueued)
    /\ \A r \in RunIds :
           /\ runs[r].enqueued => runs[r].set
           /\ runs[r].pc = "done" => (runs[r].enqueued <=> runs[r].set)
    /\ Len(queue) = Cardinality({ r \in RunIds : runs[r].enqueued })

\* two runs of one salt in flight together, at different instants
C5_Witness ==
    \E s \in Salts : \E r1, r2 \in Passed(s) :
        /\ r1 # r2 /\ Within(r1, r2)
        /\ runs[r1].at < runs[r2].at
        /\ runs[r1].set /\ runs[r1].pc = "enqueue"
        /\ ~runs[r2].set /\ runs[r2].pc = "done"

\* the attestation of the run did not pass verify_attestation
VerificationFailed(r) ==
    runs[r].outcome \in {"SafetyNetVerificationError", "MalformedJwsToken"}

\* C15: the step of the attestation job in which verification fails leaves
\* the used-salt keys and the queue as they were and ends the job; a job
\* whose verification failed has set no key and enqueued nothing.
C15_FailedVerificationChangesNothing ==
    [][\A r \in RunIds :
          /\ (runs[r].pc = "verify" /\ VerificationFailed(r)')
                 => salts' = salts /\ queue' = queue
          /\ VerificationFailed(r)'
                 => /\ runs'[r].pc = "done"
                    /\ ~runs'[r].set /\ ~runs'[r].enqueued]_vars

\* a salt whose first attestation failed verification is accepted afterwards
C15_Witness ==
    \E r1, r2 \in RunIds :
        /\ r1 < r2
        /\ runs[r1].salt = runs[r2].salt
        /\ VerificationFailed(r1) /\ runs[r1].at < runs[r2].at
        /\ runs[r2].outcome = "verified" /\ runs[r2].set /\ runs[r2].enqueued
        /\ Len(queue) = 1

\* the step is the handling of a non-dummy POST /google/operational-info in
\* slot r
Posts(r) ==
    /\ runs[r].pc = "idle" /\ runs'[r].pc # "idle"
    /\ runs'[r].outcome \notin {"invalid", "dummy"}

C17_DummyUploadAnswers204 ==
    /\ \A u \in UploadIds :
           uploads[u].pc # "idle" /\ uploads[u].dummy =>
               /\ uploads[u].pc = "done" /\ uploads[u].status = 204
               /\ ~uploads[u].present /\ ~uploads[u].enqueued
    /\ \A r \in RunIds :
           runs[r].pc # "idle" /\ runs[r].dummy =>
               /\ runs[r].pc = "done" /\ runs[r].status = 204
               /\ ~runs[r].set /\ ~runs[r].enqueued

C19_SchemaViolationAnswers400 ==
    /\ \A u \in UploadIds :
           /\ uploads[u].pc # "idle"
           /\ \/ ~uploads[u].valid
              \/ ~uploads[u].dummy /\ ~AnalyticsToken(uploads[u].token)
           => /\ uploads[u].pc = "done" /\ uploads[u].status = 400
              /\ ~uploads[u].present /\ ~uploads[u].enqueued
    /\ \A r \in RunIds :
           runs[r].outcome = "invalid" =>
               /\ runs[r].pc = "done" /\ runs[r].status = 400
               /\ ~runs[r].set /\ ~runs[r].enqueued

\* C20: every operational-info record that is enqueued with
\* exposure_notification = false has last_risky_exposure_on absent, on the
\* iOS and on the Android path, even when the upload carried a date.
C20_NoExposureNoDate ==
    \A i \in 1..Len(queue) :
        ~queue[i].exposure_notification =>
            queue[i].last_risky_exposure_on = NoDate

(***************************************************************************)
(* Properties of the scheduled tasks.                                      *)
(***************************************************************************)
\* the batch limit of the task of a run
MaxIngested(dr) ==
    IF drains[dr].task = "store_exposure_payloads"
    THEN EXPOSURE_PAYLOAD_MAX_INGESTED_ELEMENTS
    ELSE OPERATIONAL_INFO_MAX_INGESTED_ELEMENTS

\* the runs of the two drainers that have made their LRANGE and LTRIM
Trimmed ==
    { dr \in DrainIds :
          /\ drains[dr].task \in {"store_exposure_payloads", "store_operational_info"}
          /\ drains[dr].pc \in {"store", "done"} }

\* C21: a drainer run on a list of n elements with batch limit MAX removes
\* exactly the first min(n, MAX) elements, which are the elements it read,
\* and leaves the other max(0, n - MAX) on the list in their order; no run
\* removes more than MAX elements.
C21_DrainTakesFirstMax ==
    \A dr \in Trimmed :
        LET n == Len(drains[dr].before)
            k == Minimum(n, MaxIngested(dr))
        IN  /\ drains[dr].batch = SubSeq(drains[dr].before, 1, k)
            /\ drains[dr].trimmed = drains[dr].batch
            /\ drains[dr].after = SubSeq(drains[dr].before, k + 1, n)
            /\ Len(drains[dr].trimmed) <= MaxIngested(dr)

\* a run on a list longer than the limit, one on a shorter list, and one on
\* an empty list
C21_Witness ==
    /\ \E dr \in Trimmed :
           /\ Len(drains[dr].before) > MaxIngested(dr)
           /\ Len(drains[dr].after) = 1
    /\ \E dr \in Trimmed :
           /\ Len(drains[dr].before) = 1
           /\ drains[dr].after = <<>>

\* the completed or failed runs of store_exposure_payloads
PayloadRuns ==
    { dr \in DrainIds :
          drains[dr].task = "store_exposure_payloads" /\ drains[dr].pc = "done" }

IsValidPayload(element) == element.kind = "valid"
IsWrongPayload(element) == element.kind # "valid"

\* C22: at the end of a store_exposure_payloads run every removed element
\* has one destination: the valid ones (valid JSON, version 1, a non-null
\* payload that passes the schema) were inserted, the text of every other
\* one was pushed onto the errors list, and inserted + sidelined = removed.
C22_EachElementHasOneDestination ==
    \A dr \in PayloadRuns :
        /\ drains[dr].inserted = SelectSeq(drains[dr].trimmed, IsValidPayload)
        /\ drains[dr].sidelined = SelectSeq(drains[dr].trimmed, IsWrongPayload)
        /\ Len(drains[dr].inserted) + Len(drains[dr].sidelined)
               = Len(drains[dr].trimmed)

\* the contents of the stored OperationalInfo documents, in insertion order
IsOperationalInfoDocument(document) == document.collection = "OperationalInfo"
StoredOperationalInfo ==
    LET stored == SelectSeq(documents, IsOperationalInfoDocument)
    IN  [i \in 1..Len(stored) |-> stored[i].content]

PayloadReads ==
    { dr \in DrainIds :
          drains[dr].task = "store_exposure_payloads" /\ drains[dr].pc # "idle" }

Elements(list) == { list[i] : i \in 1..Len(list) }

\* C23: whatever the interleaving of runs and pushes, no element is read by
\* two runs, and a run trims off the list the elements its LRANGE returned
\* and no other.
C23_ExtractedAtMostOnce ==
    /\ \A dr1, dr2 \in PayloadReads :
           dr1 # dr2 =>
               Elements(drains[dr1].batch) \cap Elements(drains[dr2].batch) = {}
    /\ \A dr \in Trimmed : drains[dr].trimmed = drains[dr].batch

\* the runs of delete_old_data
Sweeps == { dr \in DrainIds : drains[dr].task = "delete_old_data" }

\* the instant a document was created at: the timestamp of its ObjectId
created_at(document) == document.id[1]

\* C25: a delete_old_data run at instant now removes from both collections
\* every document created at or before now - DATA_RETENTION_DAYS and keeps
\* every document created after that instant.
C25_SweepDeletesUpToReference ==
    \A dr \in Sweeps :
        \A i \in 1..Len(drains[dr].before) :
            LET document == drains[dr].before[i]
                reference_date == drains[dr].at - DATA_RETENTION_DAYS
            IN  IF created_at(document) <= reference_date
                THEN document \notin Elements(drains[dr].after)
                ELSE document \in Elements(drains[dr].after)

(***************************************************************************)
(* Properties of the HTTP helpers.                                         *)
(***************************************************************************)
\* the calls that have made an attempt
Started == { c \in RequestIds : reqs[c].pc # "idle" }

Retried == {"5xx", "ClientError", "TimeoutError"}

Last(list) == list[Len(list)]

C27_ExhaustionIsDeviceCheckApiError ==
    \A c \in Started :
        /\ reqs[c].helper \in {"fetch_device_check_bits", "set_device_check_bits"}
        /\ reqs[c].pc = "raised"
        => reqs[c].raised = "DeviceCheckApiError"

\* the fetches that returned the data of a device
Fetched ==
    { c \in Started : reqs[c].helper = "fetch_device_check_bits"
                      /\ reqs[c].pc = "returned" }

\* C28: used_in_current_month is true exactly when last_update_time is
\* present and names the current month or a later one, whatever the bits.
C28_UsedInCurrentOrLaterMonth ==
    \A c \in Fetched :
        LET last_update_time == reqs[c].data.last_update_time
        IN  IF last_update_time = NoUpdate
            THEN ~reqs[c].used
            ELSE IF last_update_time < reqs[c].month
                 THEN ~reqs[c].used
                 ELSE reqs[c].used

\* data of a later month that counts as used, and data of an earlier month
\* with both bits set that does not
C28_Witness ==
    /\ \E c \in Fetched :
           /\ reqs[c].data.last_update_time > reqs[c].month
           /\ reqs[c].used
    /\ \E c \in Fetched :
           /\ reqs[c].data.last_update_time # NoUpdate
           /\ reqs[c].data.last_update_time < reqs[c].month
           /\ reqs[c].data.bit0 /\ reqs[c].data.bit1
           /\ ~reqs[c].used

(***************************************************************************)
(* Properties of the months.                                               *)
(***************************************************************************)
\* the flows that added the members of a token, and the months they did so
IssueMonths(token) ==
    { flows[f].at : f \in { g \in FlowIds : /\ flows[g].token = token
                                            /\ flows[g].outcome = "authorized" } }

\* C29: a token is authorized exactly when its set holds one of the two
\* members of the month that is current at the call, so members of the next
\* month count only once the month has rolled over; an upload admitted in a
\* month had its members added in that month or the one before, never
\* earlier.
C29_AuthorizedByCurrentMonthMember ==
    /\ \A t \in Tokens :
           is_upload_authorized_for_token(t) <=>
               \E flag \in {0, 1} : <<month, flag>> \in ledger[t]
    /\ \A u \in UploadIds :
           uploads[u].present =>
               \E issued \in IssueMonths(uploads[u].token) :
                   uploads[u].month \in {issued, issued + 1}

\* a token issued in month 0 only, admitted once in month 0 and once more
\* after the rollover, and holding nothing that counts in month 2
C29_Witness ==
    \E t \in Tokens :
        /\ IssueMonths(t) = {0}
        /\ \E u \in UploadIds : /\ uploads[u].token = t /\ uploads[u].present
                                /\ uploads[u].month = 0
        /\ \E u \in UploadIds : /\ uploads[u].token = t /\ uploads[u].present
                                /\ uploads[u].month = 1
        /\ month = 2
        /\ ledger[t] # {}
        /\ ~is_upload_authorized_for_token(t)

(***************************************************************************)
(* Properties of the attestation over time.                                *)
(***************************************************************************)
\* the runs that enqueued the record of the attestation of a salt and a
\* timestampMs
Enqueued(salt, timestampMs) ==
    { r \in RunIds : /\ runs[r].enqueued
                     /\ runs[r].salt = salt
                     /\ runs[r].timestampMs = timestampMs }

\* C30: an attestation, fixed by its salt and its timestampMs, has at most
\* one record enqueued, however late it is presented again.
C30_AttestationEnqueuedOnce ==
    \A salt \in Salts, timestampMs \in Instants :
        Cardinality(Enqueued(salt, timestampMs)) <= 1

(***************************************************************************)
(* Properties of the device bits over the flows of a device.               *)
(***************************************************************************)
\* the step is the read of the first step of flow f, and the read succeeded
FirstRead(f) ==
    /\ flows[f].pc = "first_step"
    /\ flows'[f].pc # "first_step"
    /\ IsRead(Last(flows'[f].calls))

FlowsOf(d) == { f \in FlowIds : flows[f].pc # "idle" /\ flows[f].device = d }

Terminated(d) == \A f \in FlowsOf(d) : flows[f].pc = "done"

\* C32: once every flow of a device has terminated, the bits of the device
\* are (false,false) or (true,true), never (true,false).
C32_NeverLeftMidProtocol ==
    \A d \in Devices :
        Terminated(d) =>
            is_default_configuration(bits[d]) \/ is_blacklisted(bits[d])

(***************************************************************************)
(* Termination of the authorization flow.                                  *)
(***************************************************************************)
Reads(f) == { i \in 1..Len(Calls(f)) : Calls(f)[i].op = "fetch" }
Writes(f) == { i \in 1..Len(Calls(f)) : Calls(f)[i].op = "set" }

\* the flow is about to make its first read, on a device with default bits
\* not written in the current month, and no other flow of the device is
\* running
Fresh(f) ==
    /\ flows[f].pc = "first_step"
    /\ is_default_configuration(bits[flows[f].device])
    /\ ~used_in_current_month(bits[flows[f].device])
    /\ Running(flows[f].device) = {}

\* a DeviceCheck call of the flow failed
Errored(f) == \E i \in 1..Len(Calls(f)) : ~Calls(f)[i].ok

\* another flow of the same device has made a DeviceCheck call
Disturbed(f) ==
    \E g \in FlowIds \ {f} :
        flows[g].device = flows[f].device /\ Calls(g) # <<>>

\* C33: a flow makes at most three reads and two writes of the bits and
\* terminates; a flow on a fresh device terminates having granted quota,
\* with the bits in the default configuration, unless a DeviceCheck call of
\* its own failed or another flow of the device was at work.
C33_FlowTerminates ==
    /\ [](\A f \in FlowIds :
              Cardinality(Reads(f)) <= 3 /\ Cardinality(Writes(f)) <= 2)
    /\ \A f \in FlowIds : (flows[f].pc # "idle") ~> (flows[f].pc = "done")
    /\ \A f \in FlowIds :
           Fresh(f) ~>
               /\ flows[f].pc = "done"
               /\ \/ Errored(f)
                  \/ Disturbed(f)
                  \/ /\ flows[f].outcome = "authorized"
                     /\ GrantingCalls(Calls(f))
                     /\ is_default_configuration(bits[flows[f].device])

\* the only flow of a device has ended: three reads, two writes, quota
\* granted and the bits back to default
C33_Witness ==
    \E f \in FlowIds :
        /\ flows[f].pc = "done" /\ flows[f].outcome = "authorized"
        /\ ~Errored(f) /\ ~Disturbed(f)
        /\ Cardinality(Reads(f)) = 3 /\ Cardinality(Writes(f)) = 2
        /\ is_default_configuration(bits[flows[f].device])
        /\ flows[f].token \in DOMAIN ledger
        /\ ledger[flows[f].token] # {}

(***************************************************************************)
(* Properties of the attestation job.                                      *)
(***************************************************************************)
\* the jobs whose attestation failed a verification step
FailedJobs ==
    { r \in RunIds : runs[r].pc = "done" /\ runs[r].kind \in AttestationKinds
                     /\ runs[r].outcome # "verified" }

\* the exception left the job: except SafetyNetVerificationError is the only
\* clause of the job
JobRaised(r) == runs[r].outcome # "SafetyNetVerificationError"

\* C34: a job whose attestation fails a verification step returns normally:
\* no exception leaves it.
C34_FailedJobReturns == \A r \in FailedJobs : ~JobRaised(r)

FailedInserts ==
    { dr \in DrainIds : drains[dr].pc = "done" /\ drains[dr].outcome = "PyMongoError" }

MaxIngestedBy(dr) ==
    IF drains[dr].task = "store_exposure_payloads"
    THEN EXPOSURE_PAYLOAD_MAX_INGESTED_ELEMENTS
    ELSE OPERATIONAL_INFO_MAX_INGESTED_ELEMENTS

\* the run of the same drainer that follows run dr, if it is over
FollowingRuns(dr) ==
    { dr2 \in DrainIds :
          /\ dr2 > dr
          /\ drains[dr2].task = drains[dr].task
          /\ drains[dr2].pc = "done"
          /\ \A j \in DrainIds : (dr < j /\ j < dr2) => drains[j].task # drains[dr].task }

StoredContents == { documents[i].content : i \in 1..Len(documents) }

C37_MalformedAlwaysSidelined ==
    \A dr \in PayloadRuns :
        \A i \in 1..Len(drains[dr].trimmed) :
            IsWrongPayload(drains[dr].trimmed[i]) =>
                drains[dr].trimmed[i] \in Elements(errors)

\* the exposure-payload element of serial number n is on the list
OnList(n) == \E i \in 1..Len(payloads) : payloads[i].n = n

\* it was inserted into the document store, or pushed onto the errors list
Inserted(n) == \E i \in 1..Len(documents) :
    documents[i].collection = "ExposurePayload" /\ documents[i].content.n = n
Sidelined(n) == \E i \in 1..Len(errors) : errors[i].n = n /\ IsWrongPayload(errors[i])

\* C38: with drainers that keep being scheduled and inserts that succeed,
\* every element pushed onto the exposure-payload list is eventually off the
\* list and inserted, or on the errors list if it is malformed; every
\* operational info enqueued is eventually a document; and once the
\* producers have stopped both lists become empty and stay empty.
C38_ListsEventuallyDrained ==
    /\ \A n \in 1..MaxElements :
           OnList(n) ~> (~OnList(n) /\ (Inserted(n) \/ Sidelined(n)))
    /\ \A k \in 1..MaxElements :
           (Len(sent) >= k) ~>
               (Len(StoredOperationalInfo) >= k /\ StoredOperationalInfo[k] = sent[k])
    /\ (produced = MaxElements) ~> [](payloads = <<>> /\ queue = <<>>)

\* the number a run of decimal characters writes
RECURSIVE Number(_)
Number(text) ==
    IF text = <<>> THEN 0
    ELSE 10 * Number(SubSeq(text, 1, Len(text) - 1))
             + (CHOOSE i \in 0..9 : Digit(i) = Last(text))

\* C39: on every date, next_month() is the first day of the month that
\* follows the month of current_month(), the month after a 28-, 29-, 30- or
\* 31-day month and January of the next year after December, and the
\* members for the next month are written with that month.
C39_NextMonthFollowsCurrent ==
    LET y == today[1]
        m == today[2]
        following == IF m = 12 THEN <<y + 1, 1, 1>> ELSE <<y, m + 1, 1>>
    IN  /\ current_month_on(today) = <<y, m, 1>>
        /\ next_month_on(today) = following
        /\ month_members # NoMembers =>
               LET current == month_members.current
                   next == month_members.next
               IN  /\ Len(current) = 12 /\ Len(next) = 12
                   /\ Number(SubSeq(current, 1, 4)) = y
                   /\ Number(SubSeq(current, 6, 7)) = m
                   /\ Number(SubSeq(next, 1, 4)) = following[1]
                   /\ Number(SubSeq(next, 6, 7)) = following[2]
                   /\ Number(SubSeq(next, 9, 10)) = 1
                   /\ next[5] = "-" /\ next[8] = "-" /\ next[11] = ":"
                   /\ next[12] = current[12]

\* the members computed on the last day of a December, or on the 29th of a
\* February
C39_Witness ==
    /\ month_members # NoMembers
    /\ \/ today = <<FirstYear, 12, 31>> /\ Number(SubSeq(month_members.next, 1, 4)) = FirstYear + 1
       \/ today[2] = 2 /\ today[3] = 29

====
